---- MODULE Spec2Model ----
(***************************************************************************)
(* Model of the Music Assistant WebSocket client (src/server/ma/client.ts) *)
(* as it is driven by the plugin entry point (src/server/index.ts).        *)
(*                                                                         *)
(* The program runs on one event loop.  Every action below is one          *)
(* macrotask (a call from the host, a socket event, a timer) and is only   *)
(* enabled when the microtask queue is empty; RunMicrotask runs the        *)
(* promise continuations a macrotask left behind, in FIFO order, before    *)
(* anything else happens.                                                  *)
(***************************************************************************)
EXTENDS Integers, Sequences, FiniteSets, TLC

\* ------------------------------------------------------------------ bounds
MaxSockets == 2
MaxRequests == 2
MaxWaiters == 2
MaxAcc == 1
TickMs == 12000
MaxPlayers == 2
MaxTriggers == 2
MaxCycles == 3
MaxFetches == 1
MaxCalls == 1
MaxAdjusts == 3

\* ------------------------------------------------------- program constants
COMMAND_TIMEOUT_MS == 12000
CONNECT_TIMEOUT_MS == 8000
AUTH_SCHEMA_VERSION == 28

\* -------------------------------------------------------------- value sets
SockIds == 1..MaxSockets
ReqIds == 1..MaxRequests
NoSocket == 0

\* the token of the settings (trimmed; "" when none is configured) and the
\* token the provider login hands over
SettingsTokens == {"", "t1"}
LoginToken == "t1"

DisconnectReasons == {"Disconnected by user."}

\* a JSON value carried in `result`: an array of elements or a non-array
Arr(items) == [isArray |-> TRUE, items |-> items]
NonArray == [isArray |-> FALSE, items |-> <<>>]

NoAwaiter == [kind |-> "none", token |-> ""]

NullInfo == [present |-> FALSE, schema_version |-> 0]
Info(v) == [present |-> TRUE, schema_version |-> v]
SchemaVersions == {AUTH_SCHEMA_VERSION - 1, AUTH_SCHEMA_VERSION}

NoTimer == [armed |-> FALSE, remaining |-> 0]

NoPromise == [active |-> FALSE, sock |-> NoSocket, waiters |-> 0]

\* selectedPlayerId = null
NoPlayer == 0

\* no host call made yet
NoCall == [op |-> "none"]

\* no call of handleSet is waiting for a command
NoJob == [pc |-> "idle", playerId |-> 0, targetPlayerId |-> 0]

\* no items command in flight and no fetched items in the cache
NoItems == [requested |-> 0, cached |-> 0]

\* no volume known and no adjustVolume request made
NoLog == [v |-> <<>>, delta |-> 0, pending |-> <<>>, sets |-> <<>>,
          done |-> 0]

\* no maState event in the last step; queue_id is the id of the payload's
\* queue (0 when it is null), itemsOf the queue_id its items were fetched with
NoState == [emitted |-> FALSE, selectedPlayerId |-> 0, queue_id |-> 0,
            queueItems |-> <<>>, itemsOf |-> 0]

NoFrame == [json |-> FALSE, info |-> FALSE, schema_version |-> 0,
            event |-> FALSE, hasId |-> FALSE, message_id |-> 0,
            hasErr |-> FALSE, error_code |-> "", details |-> "",
            result |-> NonArray, partial |-> FALSE]

VARIABLES
  \* fields of MusicAssistantClient
  ws, baseUrl, authToken, state, message, authenticated, serverInfo,
  pending, connectPromise,
  \* the runtime: sockets, timers, queued promise continuations, id source
  sockState, attached, connSettled, connectTimer, timers, microtasks,
  nextId, nextSock, awaiters,
  \* what was observed: the number of settle calls per request, the snapshot
  \* last broadcast, the number of teardowns done by connect(), the elements
  \* the server streamed for each pending request
  settled, lastSnapshot, teardowns, streamed, commandOf,
  \* what the last step did: whether a call of sendCommand threw, the frames
  \* written, the requests settled and the frame that settled them, the
  \* outcomes handed to the callers of connect()
  threw, written, lastSettled, lastFrame, connectOutcomes,
  \* the host (index.ts): the poll guard and its trailing request, the
  \* caches, the selection, and where the poll cycle in flight is waiting
  pollInFlight, pollAgain, playersCache, queuesCache, queueItemsCache,
  selectedPlayerId, pollPc,
  \* the default player of the settings, and the settings the cycle in
  \* flight read when it started
  defaultPlayerId, pollDefault,
  \* what was observed of the host: the triggers that arrived during the
  \* cycle in flight, the cycles started and completed, the commands sent
  \* and the events emitted by the last step, the last call and its result
  missed, started, completed, sent, emitted, lastCall,
  \* the callbacks of adjustVolume that wait for the answer of 'players/get',
  \* and the number of calls of the player and volume functions made so far
  volumeJobs, calls,
  \* the call of handleSet that waits for the answer of a command, the
  \* request names of the error events emitted by the last step, how the
  \* poll cycle that ended in the last step ended, and the cycle of each
  \* poll command that is not answered yet
  setJob, errorRequests, pollOutcome, outstanding,
  \* the ids of the queues upsertQueue wrote to the cache
  upserted,
  \* the queue_id argument of the 'player_queues/items' command in flight and
  \* the queue_id the cached items were fetched with, and the payload of the
  \* maState event emitted by the last step
  itemsFor, lastState,
  \* what the server knows of the volume of one player: its volume before
  \* the first adjustVolume request, the delta of the requests, the level of
  \* the volume_set in flight, the levels of the volume_set commands the
  \* server answered, and the number of requests that completed
  volumeLog

clientVars == <<ws, baseUrl, authToken, state, message, authenticated, serverInfo,
  pending, connectPromise,
  sockState, attached, connSettled, connectTimer, timers, microtasks,
  nextId, nextSock, awaiters,
  settled, lastSnapshot, teardowns, streamed, commandOf,
  threw, written, lastSettled, lastFrame, connectOutcomes>>

hostVars == <<pollInFlight, pollAgain, playersCache, queuesCache,
  queueItemsCache, selectedPlayerId, pollPc, defaultPlayerId, pollDefault,
  missed, started, completed, sent, emitted, lastCall, volumeJobs, calls,
  setJob, errorRequests, pollOutcome, outstanding, upserted,
  itemsFor, lastState, volumeLog>>

vars == <<clientVars, hostVars>>

\* ---------------------------------------------------------------- helpers
Min(S) == CHOOSE x \in S : \A y \in S : x <= y

\* remove key k from function f
Without(f, k) == [x \in (DOMAIN f) \ {k} |-> f[x]]

\* f with k bound to v (k may be new)
With(f, k, v) == [x \in (DOMAIN f) \cup {k} |-> IF x = k THEN v ELSE f[x]]

\* The whole mutable state as one record, so that a handler is a composition
\* of functions from state to state, in the order of the statements.
Cur ==
  [ws |-> ws, baseUrl |-> baseUrl, authToken |-> authToken, state |-> state,
   message |-> message, authenticated |-> authenticated,
   serverInfo |-> serverInfo, pending |-> pending,
   connectPromise |-> connectPromise,
   sockState |-> sockState, attached |-> attached,
   connSettled |-> connSettled, connectTimer |-> connectTimer,
   timers |-> timers, microtasks |-> microtasks,
   nextId |-> nextId, nextSock |-> nextSock, awaiters |-> awaiters,
   settled |-> settled,
   lastSnapshot |-> lastSnapshot, teardowns |-> teardowns,
   streamed |-> streamed, commandOf |-> commandOf,
   threw |-> threw, written |-> written, lastSettled |-> lastSettled, lastFrame |-> lastFrame,
   connectOutcomes |-> connectOutcomes]

\* the state a step starts from: the record of the previous step is cleared
Start ==
  [Cur EXCEPT !.threw = FALSE, !.written = <<>>, !.lastSettled = <<>>,
              !.lastFrame = NoFrame,
              !.connectOutcomes = <<>>,
              !.streamed = [id \in ReqIds |->
                              IF id \in DOMAIN pending THEN @[id] ELSE <<>>],
              !.commandOf = [id \in ReqIds |->
                              IF id \in DOMAIN pending THEN @[id] ELSE ""]]

CommitClient(S) ==
  /\ ws' = S.ws /\ baseUrl' = S.baseUrl /\ authToken' = S.authToken
  /\ state' = S.state /\ message' = S.message
  /\ authenticated' = S.authenticated /\ serverInfo' = S.serverInfo
  /\ pending' = S.pending /\ connectPromise' = S.connectPromise
  /\ sockState' = S.sockState /\ attached' = S.attached
  /\ connSettled' = S.connSettled /\ connectTimer' = S.connectTimer
  /\ timers' = S.timers /\ microtasks' = S.microtasks
  /\ nextId' = S.nextId /\ nextSock' = S.nextSock /\ awaiters' = S.awaiters
  /\ settled' = S.settled /\ written' = S.written
  /\ lastSnapshot' = S.lastSnapshot /\ teardowns' = S.teardowns
  /\ streamed' = S.streamed /\ commandOf' = S.commandOf
  /\ threw' = S.threw /\ lastSettled' = S.lastSettled
  /\ lastFrame' = S.lastFrame /\ connectOutcomes' = S.connectOutcomes

\* a step of the client: the host's own state is not touched
Commit(S) == CommitClient(S) /\ UNCHANGED hostVars

\* ws?.readyState
readyState(S) == IF S.ws = NoSocket THEN "NONE" ELSE S.sockState[S.ws]

isConnected(S) == readyState(S) = "OPEN"

isAuthenticated(S) == S.authenticated

\* getStatus with the schema test off by one
getStatusAbove28(S) ==
  [state |-> S.state,
   message |-> S.message,
   connected |-> readyState(S) = "OPEN",
   authenticated |-> S.authenticated,
   authRequired |-> /\ S.serverInfo.present
                    /\ S.serverInfo.schema_version > AUTH_SCHEMA_VERSION
                    /\ ~S.authenticated,
   serverInfo |-> S.serverInfo]

getStatus(S) ==
  [state |-> S.state,
   message |-> S.message,
   connected |-> readyState(S) = "OPEN",
   authenticated |-> S.authenticated,
   authRequired |-> /\ S.serverInfo.present
                    /\ S.serverInfo.schema_version >= AUTH_SCHEMA_VERSION
                    /\ ~S.authenticated,
   serverInfo |-> S.serverInfo]

\* updateStatus that sets the fields and tells no subscriber
updateStatusSilent(S, st, msg, auth) ==
  [S EXCEPT !.state = st, !.message = msg, !.authenticated = auth]

\* updateStatus that writes the flag only when it is passed as true
updateStatusRaisesOnly(S, st, msg, auth) ==
  LET T == [S EXCEPT !.state = st, !.message = msg,
                     !.authenticated = IF auth THEN TRUE ELSE @]
  IN [T EXCEPT !.lastSnapshot = getStatus(T)]

\* updateStatus(state, message, authenticated): the flag is passed by every
\* caller in the source, so the optional parameter is always a boolean here.
updateStatus(S, st, msg, auth) ==
  LET T == [S EXCEPT !.state = st, !.message = msg, !.authenticated = auth]
  IN [T EXCEPT !.lastSnapshot = getStatus(T)]

\* A promise of sendCommand is settled: resolve(value) or reject(error).
\* The call is recorded, and the continuation awaiting the promise (if the
\* caller is authenticateWithToken) is queued as a microtask.
Settle(S, id, kind, value) ==
  LET T == [S EXCEPT !.settled[id] = Append(@, kind),
                     !.awaiters[id] = NoAwaiter,
                     !.lastSettled =
                       Append(@, [id |-> id, kind |-> kind, value |-> value])]
  IN IF S.awaiters[id].kind \in {"caller", "none"}
     THEN T
     ELSE [T EXCEPT !.microtasks =
             Append(@, [kind |-> S.awaiters[id].kind,
                        ok |-> kind = "resolve", by |-> kind,
                        err |-> IF kind = "resolve" THEN <<>> ELSE value,
                        token |-> S.awaiters[id].token,
                        sock |-> NoSocket])]

clearTimeout(S, id) ==
  IF id \in DOMAIN S.timers THEN [S EXCEPT !.timers = Without(@, id)] ELSE S

\* rejectPendingRequests without its clearTimeout
RECURSIVE rejectPendingRequestsKeepsTimers(_, _)
rejectPendingRequestsKeepsTimers(S, msg) ==
  IF DOMAIN S.pending = {}
  THEN S
  ELSE LET id == Min(DOMAIN S.pending)
           S2 == Settle(S, id, "teardown", <<msg>>)
           S3 == [S2 EXCEPT !.pending = Without(@, id)]
       IN rejectPendingRequestsKeepsTimers(S3, msg)

RECURSIVE rejectPendingRequests(_, _)
rejectPendingRequests(S, msg) ==
  IF DOMAIN S.pending = {}
  THEN S
  ELSE LET id == Min(DOMAIN S.pending)
           S1 == clearTimeout(S, S.pending[id].timeout)
           S2 == Settle(S1, id, "teardown", <<msg>>)
           S3 == [S2 EXCEPT !.pending = Without(@, id)]
       IN rejectPendingRequests(S3, msg)

\* a teardown that also cancels the 8s timer of the attempt on the socket
closeSocketCancelsTimer(S, s) ==
  IF S.sockState[s] \in {"CONNECTING", "OPEN"}
  THEN [S EXCEPT !.sockState[s] = "CLOSING", !.connectTimer[s] = NoTimer]
  ELSE S

\* socket.terminate() on a CONNECTING socket / socket.close() on an OPEN one
closeSocket(S, s) ==
  IF S.sockState[s] \in {"CONNECTING", "OPEN"}
  THEN [S EXCEPT !.sockState[s] = "CLOSING"]
  ELSE S

\* disconnect that keeps the server info of the old session
disconnectKeepsServerInfo(S, reason) ==
  LET socket == S.ws
      S1 == [S EXCEPT !.ws = NoSocket]
      S2 == IF socket # NoSocket THEN closeSocket(S1, socket) ELSE S1
      S3 == rejectPendingRequests(S2, reason)
      S4 == [S3 EXCEPT !.authenticated = FALSE]
  IN updateStatus(S4, "disconnected", <<reason>>, FALSE)

\* disconnect that forgets the pending requests
disconnectKeepsPending(S, reason) ==
  LET socket == S.ws
      S1 == [S EXCEPT !.ws = NoSocket]
      S2 == IF socket # NoSocket THEN closeSocket(S1, socket) ELSE S1
      S4 == [S2 EXCEPT !.authenticated = FALSE, !.serverInfo = NullInfo]
  IN updateStatus(S4, "disconnected", <<reason>>, FALSE)

disconnect(S, reason) ==
  LET socket == S.ws
      S1 == [S EXCEPT !.ws = NoSocket]
      S2 == IF socket # NoSocket THEN closeSocket(S1, socket) ELSE S1
      S3 == rejectPendingRequests(S2, reason)
      S4 == [S3 EXCEPT !.authenticated = FALSE, !.serverInfo = NullInfo]
  IN updateStatus(S4, "disconnected", <<reason>>, FALSE)

\* ------------------------------------------------------------ sendCommand
\* this.pending.set(messageId, {resolve, reject, timeout, partialResults: []})
\* together with the setTimeout of the promise executor
storePending(S, id, command) ==
  [S EXCEPT !.timers = With(@, id, [remaining |-> COMMAND_TIMEOUT_MS,
                                    command |-> command]),
            !.pending = With(@, id, [timeout |-> id, partialResults |-> <<>>,
                                     sock |-> S.ws])]

\* socket.send(JSON.stringify(payload)); the frame remembers whether the
\* pending entry and its timer existed when it was written
writeFrame(S, id, command) ==
  [S EXCEPT !.written = Append(@, [sock |-> S.ws, command |-> command,
                                   message_id |-> id,
                                   stored |-> id \in DOMAIN S.pending
                                              /\ id \in DOMAIN S.timers]),
            !.commandOf[id] = command]

sendCommandThrows(S) == S.ws = NoSocket \/ readyState(S) # "OPEN"

\* sendCommand writing the frame before it stores the pending entry
sendCommandBodyWritesFirst(S, command, awaiter) ==
  LET id == S.nextId
      S1 == [S EXCEPT !.nextId = id + 1, !.awaiters[id] = awaiter]
      S2 == writeFrame(S1, id, command)
  IN storePending(S2, id, command)

\* body of sendCommand once the socket check has passed
sendCommandBody(S, command, awaiter) ==
  LET id == S.nextId
      S1 == [S EXCEPT !.nextId = id + 1, !.awaiters[id] = awaiter]
      S2 == storePending(S1, id, command)
  IN writeFrame(S2, id, command)

sendCommand(S, command, awaiter) ==
  IF sendCommandThrows(S)
  THEN [S EXCEPT !.threw = TRUE]
  ELSE sendCommandBody(S, command, awaiter)

\* ---------------------------------------------------- authenticateWithToken
\* The promise it returns is awaited by `who` ("handshake": the try/catch of
\* handleServerInfo; "login": runProviderAuth).  A throw before the command
\* is sent reaches the awaiting code as a rejection, in a microtask.
Rejection(who, err) ==
  [kind |-> who, ok |-> FALSE, by |-> "throw", err |-> err, token |-> "",
   sock |-> NoSocket]

authenticateWithToken(S, token, who) ==
  IF token = ""
  THEN [S EXCEPT !.microtasks = Append(@, Rejection(who, <<"Token is empty.">>))]
  ELSE IF ~isConnected(S)
  THEN [S EXCEPT !.microtasks =
          Append(@, Rejection(who, <<"Not connected to Music Assistant.">>))]
  ELSE LET S1 == updateStatus(S, "authenticating",
                              <<"Authenticating with Music Assistant">>, FALSE)
       IN sendCommand(S1, "auth", [kind |-> who, token |-> token])

\* the code after `await this.sendCommand('auth', ...)`
authenticateResume(S, token) ==
  LET S1 == [S EXCEPT !.authToken = token]
  IN updateStatus(S1, "authenticated", <<"Connected and authenticated.">>, TRUE)

\* -------------------------------------------------------- handleServerInfo
\* handleServerInfo asking for the token whatever the schema version
handleServerInfoAlwaysAuth(S, info) ==
  LET S1 == [S EXCEPT !.serverInfo = info]
  IN IF S1.authToken = ""
     THEN updateStatus(S1, "connected",
            <<"Authentication required. Use provider login or set a token.">>,
            FALSE)
     ELSE authenticateWithToken(S1, S1.authToken, "handshake")

handleServerInfo(S, info) ==
  LET S1 == [S EXCEPT !.serverInfo = info]
  IN IF info.schema_version >= AUTH_SCHEMA_VERSION
     THEN IF S1.authToken = ""
          THEN updateStatus(S1, "connected",
                 <<"Authentication required. Use provider login or set a token.">>,
                 FALSE)
          ELSE authenticateWithToken(S1, S1.authToken, "handshake")
     ELSE updateStatus(S1, "authenticated", <<"Connected.">>, TRUE)

\* a catch block that swallows the failure
handleServerInfoCatchSilent(S, err) == S

\* the catch block of handleServerInfo
handleServerInfoCatch(S, err) ==
  updateStatus(S, "error", <<"Authentication failed: ">> \o err, FALSE)

\* ----------------------------------------------------- handleResultMessage
\* pending.partialResults.push(...message.result)
pushPartial(acc, items) == acc \o items

\* the value a non-partial success result resolves the request with
finalValue(acc, result) ==
  IF Len(acc) > 0 /\ result.isArray
  THEN Arr(acc \o result.items)
  ELSE result

\* handleResultMessage treating a partial result as the final one
handleResultMessageCompletesOnPartial(S, m) ==
  LET id == m.message_id IN
  IF id \notin DOMAIN S.pending
  THEN S
  ELSE LET p == S.pending[id] IN
       IF m.isError
       THEN LET S1 == clearTimeout(S, p.timeout)
                S2 == [S1 EXCEPT !.pending = Without(@, id)]
            IN Settle(S2, id, "error",
                      IF m.details # "" THEN <<m.details>> ELSE <<m.error_code>>)
       ELSE LET S1 == clearTimeout(S, p.timeout)
                S2 == [S1 EXCEPT !.pending = Without(@, id)]
            IN Settle(S2, id, "resolve", finalValue(p.partialResults, m.result))

\* handleResultMessage restarting the 12s timer on every partial result
handleResultMessageExtendsDeadline(S, m) ==
  LET id == m.message_id IN
  IF id \notin DOMAIN S.pending
  THEN S
  ELSE LET p == S.pending[id] IN
       IF m.isError
       THEN LET S1 == clearTimeout(S, p.timeout)
                S2 == [S1 EXCEPT !.pending = Without(@, id)]
            IN Settle(S2, id, "error",
                      IF m.details # "" THEN <<m.details>> ELSE <<m.error_code>>)
       ELSE IF m.partial
       THEN [S EXCEPT !.pending[id].partialResults =
                        IF m.result.isArray
                        THEN pushPartial(@, m.result.items) ELSE @,
                      !.timers[p.timeout].remaining = COMMAND_TIMEOUT_MS]
       ELSE LET S1 == clearTimeout(S, p.timeout)
                S2 == [S1 EXCEPT !.pending = Without(@, id)]
            IN Settle(S2, id, "resolve", finalValue(p.partialResults, m.result))

handleResultMessage(S, m) ==
  LET id == m.message_id IN
  IF id \notin DOMAIN S.pending
  THEN S
  ELSE LET p == S.pending[id] IN
       IF m.isError
       THEN LET S1 == clearTimeout(S, p.timeout)
                S2 == [S1 EXCEPT !.pending = Without(@, id)]
            IN Settle(S2, id, "error",
                      IF m.details # "" THEN <<m.details>> ELSE <<m.error_code>>)
       ELSE IF m.partial
       THEN IF m.result.isArray
            THEN [S EXCEPT !.pending[id].partialResults =
                            pushPartial(@, m.result.items)]
            ELSE S
       ELSE LET S1 == clearTimeout(S, p.timeout)
                S2 == [S1 EXCEPT !.pending = Without(@, id)]
            IN Settle(S2, id, "resolve", finalValue(p.partialResults, m.result))

\* ------------------------------------------------------------- wire codec
\* A text frame, described by what JSON.parse and the typeof tests see.
Frame(json, info, schema, event, hasId, id, hasErr, details, result, partial) ==
  [json |-> json, info |-> info, schema_version |-> schema, event |-> event,
   hasId |-> hasId, message_id |-> id, hasErr |-> hasErr,
   error_code |-> "err", details |-> details, result |-> result,
   partial |-> partial]

ServerInfoFrame(v) ==
  Frame(TRUE, TRUE, v, FALSE, FALSE, 0, FALSE, "", NonArray, FALSE)
EventFrame ==
  Frame(TRUE, FALSE, 0, TRUE, FALSE, 0, FALSE, "", NonArray, FALSE)
SuccessFrame(id, result, partial) ==
  Frame(TRUE, FALSE, 0, FALSE, TRUE, id, FALSE, "", result, partial)
ErrorFrame(id, details) ==
  Frame(TRUE, FALSE, 0, FALSE, TRUE, id, TRUE, details, NonArray, FALSE)
MalformedFrame ==
  Frame(FALSE, FALSE, 0, FALSE, FALSE, 0, FALSE, "", NonArray, FALSE)

\* The server numbers the elements it streams for a request 1, 2, 3, ...:
\* the next n elements after the k it has streamed already
Chunk(k, n) == [i \in 1..n |-> k + i]

\* the result frames the server may send next for request id, of which it
\* has streamed k elements so far
ResultFrames(id, k) ==
  {SuccessFrame(id, Arr(Chunk(k, n)), TRUE) : n \in 1..MaxAcc}
  \cup {SuccessFrame(id, NonArray, TRUE)}
  \cup {SuccessFrame(id, Arr(Chunk(k, n)), FALSE) : n \in 0..1}
  \cup {SuccessFrame(id, NonArray, FALSE)}
  \cup {ErrorFrame(id, d) : d \in {"", "details"}}

\* the frames the server may send next, given what it streamed so far
Frames(S) ==
  {ServerInfoFrame(v) : v \in SchemaVersions}
  \cup {EventFrame, MalformedFrame}
  \cup UNION {ResultFrames(id, Len(S.streamed[id])) : id \in ReqIds}

parseServerInfo(f) == IF f.info THEN Info(f.schema_version) ELSE NullInfo

parseEventMessage(f) == f.event

\* null (present = FALSE), an error result or a success result
parseResultMessage(f) ==
  [present |-> f.hasId, message_id |-> f.message_id, isError |-> f.hasErr,
   error_code |-> f.error_code, details |-> f.details,
   result |-> f.result, partial |-> f.partial]

\* a handler that tests for a result before it tests for an event
classifyResultFirst(f) ==
  IF ~f.json THEN "dropped"
  ELSE IF parseServerInfo(f).present THEN "server-info"
  ELSE IF parseResultMessage(f).present THEN "result"
  ELSE IF parseEventMessage(f) THEN "event"
  ELSE "ignored"

\* which of the three shapes handleMessage treats the frame as
classify(f) ==
  IF ~f.json THEN "dropped"
  ELSE IF parseServerInfo(f).present THEN "server-info"
  ELSE IF parseEventMessage(f) THEN "event"
  ELSE IF parseResultMessage(f).present THEN "result"
  ELSE "ignored"

handleMessage(S, f) ==
  LET c == classify(f) IN
  IF c = "server-info" THEN handleServerInfo(S, parseServerInfo(f))
  ELSE IF c = "result" THEN handleResultMessage(S, parseResultMessage(f))
  ELSE S

\* the listeners of onEvent are called with the frame
eventDelivered(f) == classify(f) = "event"

\* ----------------------------------------------------------------- connect
setCredentials(S, url, token) ==
  [S EXCEPT !.baseUrl = url, !.authToken = token]

\* the promise built inside run(): settled once, by the first of the open
\* event, the error event and the 8s timer
settleOpenPromise(S, s, ok, err) ==
  IF S.connSettled[s]
  THEN S
  ELSE [S EXCEPT !.connSettled[s] = TRUE,
                 !.microtasks = Append(@, [kind |-> "connect", ok |-> ok,
                                           by |-> "", err |-> err,
                                           token |-> "",
                                           sock |-> s])]

\* run() up to its await
connectRun(S) ==
  IF S.baseUrl = ""
  THEN [S EXCEPT !.microtasks =
          Append(@, [kind |-> "connect", ok |-> FALSE, by |-> "",
                     err |-> <<"Music Assistant URL is not configured.">>,
                     token |-> "", sock |-> NoSocket])]
  ELSE LET S1 == disconnect(S, "Reconnecting...")
           S2 == [S1 EXCEPT !.teardowns = @ + 1,
                            !.serverInfo = NullInfo,
                            !.authenticated = FALSE]
           S3 == updateStatus(S2, "connecting",
                              <<"Connecting to Music Assistant">>, FALSE)
           socket == S3.nextSock
       IN [S3 EXCEPT !.nextSock = socket + 1,
                     !.sockState[socket] = "CONNECTING",
                     !.ws = socket,
                     !.connectTimer[socket] = [armed |-> TRUE,
                                              remaining |-> CONNECT_TIMEOUT_MS]]

\* connect() without the connect-in-progress guard
connectAlwaysRuns(S) ==
  LET S1 == connectRun(S)
  IN [S1 EXCEPT !.connectPromise =
                  [active |-> TRUE, sock |-> S1.ws, waiters |-> 1]]

\* connect(): a caller either joins the attempt in flight or starts one
connect(S) ==
  IF S.connectPromise.active
  THEN [S EXCEPT !.connectPromise.waiters = @ + 1]
  ELSE LET S1 == connectRun(S)
       IN [S1 EXCEPT !.connectPromise =
                       [active |-> TRUE, sock |-> S1.ws, waiters |-> 1]]

\* a connect() whose finally() leaves the connect-in-progress guard set
connectResumeKeepsGuard(S, t) ==
  LET S1 == IF t.sock = NoSocket THEN S
            ELSE IF t.ok
            THEN [S EXCEPT !.attached[t.sock] = TRUE]
            ELSE disconnect(
                   updateStatus(S, "error", <<"Connection failed: ">> \o t.err,
                                FALSE),
                   "Disconnected after connection error.")
      outcome == IF t.ok THEN "resolved" ELSE "rejected"
  IN [S1 EXCEPT !.connectOutcomes =
                   [i \in 1..S1.connectPromise.waiters |-> outcome]]

\* run() after its await, and the finally() that releases the guard; every
\* caller awaiting the promise gets its outcome
connectResume(S, t) ==
  LET S1 == IF t.sock = NoSocket THEN S
            ELSE IF t.ok
            THEN [S EXCEPT !.attached[t.sock] = TRUE]
            ELSE disconnect(
                   updateStatus(S, "error", <<"Connection failed: ">> \o t.err,
                                FALSE),
                   "Disconnected after connection error.")
      outcome == IF t.ok THEN "resolved" ELSE "rejected"
  IN [S1 EXCEPT !.connectPromise = NoPromise,
                !.connectOutcomes =
                   [i \in 1..S1.connectPromise.waiters |-> outcome]]

\* ---------------------------------------------------------------- actions
Idle == microtasks = <<>>

\* connectWithSettings / ensureConnected of index.ts: the settings always
\* carry a URL (settings.ts falls back to the default one)
ConnectWithSettings(token) ==
  /\ Idle
  /\ IF connectPromise.active
     THEN connectPromise.waiters < MaxWaiters
     ELSE nextSock <= MaxSockets
  /\ Commit(connect(setCredentials(Start, "http://ma", token)))

\* ensureConnected while the socket is open: only the credentials change
EnsureConnected(token) ==
  /\ Idle
  /\ isConnected(Cur)
  /\ Commit(setCredentials(Start, "http://ma", token))

Disconnect(reason) ==
  /\ Idle
  /\ Commit(disconnect(Start, reason))

\* any caller of maClient.sendCommand in index.ts
SendCommand(command) ==
  /\ Idle
  /\ nextId <= MaxRequests
  /\ Commit(sendCommand(Start, command, [kind |-> "caller", token |-> ""]))

\* runProviderAuth: the token of the browser callback
ProviderLogin ==
  /\ Idle
  /\ nextId <= MaxRequests
  /\ Commit(authenticateWithToken(Start, LoginToken, "login"))

SocketOpen(s) ==
  /\ Idle
  /\ sockState[s] = "CONNECTING"
  /\ LET S1 == [Start EXCEPT !.sockState[s] = "OPEN",
                             !.connectTimer[s] = NoTimer]
         S2 == updateStatus(S1, "connected",
                            <<"Connected. Waiting for server info">>, FALSE)
     IN Commit(settleOpenPromise(S2, s, TRUE, <<>>))

\* the connection attempt fails, or the handshake was aborted by terminate()
SocketConnectError(s) ==
  /\ Idle
  /\ sockState[s] = "CONNECTING" \/ (sockState[s] = "CLOSING" /\ ~attached[s])
  /\ LET S1 == [Start EXCEPT !.sockState[s] = "CLOSED",
                             !.connectTimer[s] = NoTimer]
     IN Commit(settleOpenPromise(S1, s, FALSE, <<"socket error">>))

ConnectTimeout(s) ==
  /\ Idle
  /\ connectTimer[s].armed
  /\ connectTimer[s].remaining = 0
  /\ LET S1 == [Start EXCEPT !.connectTimer[s] = NoTimer]
     IN Commit(settleOpenPromise(S1, s, FALSE,
                                 <<"WebSocket connection timed out.">>))

\* socket.on('error', ...) of connect()
onError(S, s) ==
  IF S.ws # s THEN S
  ELSE updateStatus(S, "error", <<"Socket error: ", "socket error">>, FALSE)

\* a close handler that does not test whether its socket is the active one
onCloseUnguarded(S, s) ==
  LET S2 == updateStatus(S, "disconnected",
                         <<"Disconnected from Music Assistant.">>, FALSE)
      S3 == rejectPendingRequests(S2, "Socket closed.")
  IN [S3 EXCEPT !.ws = NoSocket]

\* a close handler that drops the socket and leaves the requests pending
onCloseKeepsPending(S, s) ==
  IF S.ws # s THEN S
  ELSE [updateStatus(S, "disconnected",
                     <<"Disconnected from Music Assistant.">>, FALSE)
          EXCEPT !.ws = NoSocket]

\* socket.on('close', ...) of connect()
onClose(S, s) ==
  IF S.ws # s THEN S
  ELSE LET S2 == updateStatus(S, "disconnected",
                              <<"Disconnected from Music Assistant.">>, FALSE)
           S3 == rejectPendingRequests(S2, "Socket closed.")
       IN [S3 EXCEPT !.ws = NoSocket]

\* 'error' on a socket whose handlers are attached
SocketError(s, after) ==
  /\ Idle
  /\ sockState[s] = "OPEN"
  /\ attached[s]
  /\ Commit(onError([Start EXCEPT !.sockState[s] = after], s))

\* 'close' on a socket whose handlers are attached
SocketClose(s) ==
  /\ Idle
  /\ sockState[s] \in {"OPEN", "CLOSING"}
  /\ attached[s]
  /\ Commit(onClose([Start EXCEPT !.sockState[s] = "CLOSED"], s))

\* the record of the frame that settled a request
noteFrame(S, f) ==
  IF S.lastSettled # <<>> THEN [S EXCEPT !.lastFrame = f] ELSE S

\* the server's record of the elements it streamed for a pending request
serverStreams(S, f) ==
  IF f.json /\ ~f.info /\ ~f.event /\ f.hasId /\ ~f.hasErr /\ f.partial
     /\ f.result.isArray /\ f.message_id \in DOMAIN S.pending
  THEN [S EXCEPT !.streamed[f.message_id] = @ \o f.result.items]
  ELSE S

\* 'message' on a socket whose handlers are attached
SocketMessage(s, f) ==
  /\ Idle
  /\ attached[s]
  /\ sockState[s] = "OPEN" \/ (sockState[s] = "CLOSING" /\ ws # s)
  /\ f.hasId => f.message_id < nextId
  /\ (f.partial /\ f.result.isArray) =>
        Len(streamed[f.message_id]) + Len(f.result.items) <= MaxAcc
  /\ (ws = s /\ f.info /\ f.schema_version >= AUTH_SCHEMA_VERSION
        /\ authToken # "") => nextId <= MaxRequests
  /\ Commit(IF ws # s THEN Start
            ELSE noteFrame(handleMessage(serverStreams(Start, f), f), f))

\* a timer callback that rejects but leaves the entry in the table
commandTimedOutKeepsEntry(S, id) ==
  Settle(S, id, "timeout",
         <<"Music Assistant command timeout: ", S.timers[id].command>>)

\* the callback of the 12s timer of sendCommand
commandTimedOut(S, id) ==
  LET S1 == [S EXCEPT !.pending =
               IF id \in DOMAIN @ THEN Without(@, id) ELSE @]
  IN Settle(S1, id, "timeout",
            <<"Music Assistant command timeout: ", S.timers[id].command>>)

\* the 12s timer of sendCommand fires
CommandTimeout(id) ==
  /\ Idle
  /\ id \in DOMAIN timers
  /\ timers[id].remaining = 0
  /\ Commit([commandTimedOut(Start, id) EXCEPT !.timers = Without(@, id)])

\* time passes: every armed timer gets TickMs closer to firing
Elapse(t) == IF t.remaining > TickMs THEN t.remaining - TickMs ELSE 0

Tick ==
  /\ Idle
  /\ \/ \E id \in DOMAIN timers : timers[id].remaining > 0
     \/ \E s \in SockIds : connectTimer[s].armed /\ connectTimer[s].remaining > 0
  /\ Commit([Start EXCEPT
       !.timers = [id \in DOMAIN timers |->
                     [timers[id] EXCEPT !.remaining = Elapse(timers[id])]],
       !.connectTimer = [s \in SockIds |->
                           IF connectTimer[s].armed
                           THEN [connectTimer[s] EXCEPT
                                   !.remaining = Elapse(connectTimer[s])]
                           ELSE connectTimer[s]]])

\* the continuation at the head of the microtask queue
RunMicrotask ==
  /\ microtasks # <<>>
  /\ LET t == Head(microtasks)
         S1 == [Start EXCEPT !.microtasks = Tail(@)]
     IN Commit(
          IF t.kind = "connect" THEN connectResume(S1, t)
          ELSE IF t.ok THEN authenticateResume(S1, t.token)
          ELSE IF t.kind = "handshake" THEN handleServerInfoCatch(S1, t.err)
          ELSE S1)

\* the module-level state of index.ts before start()
HostInit ==
  /\ pollInFlight = FALSE
  /\ pollAgain = FALSE
  /\ playersCache = <<>>
  /\ queuesCache = <<>>
  /\ queueItemsCache = <<>>
  /\ selectedPlayerId = NoPlayer
  /\ pollPc = "idle"
  /\ defaultPlayerId = NoPlayer
  /\ pollDefault = NoPlayer
  /\ missed = 0
  /\ started = 0
  /\ completed = 0
  /\ sent = <<>>
  /\ emitted = <<>>
  /\ lastCall = NoCall
  /\ volumeJobs = <<>>
  /\ calls = 0
  /\ setJob = NoJob
  /\ errorRequests = <<>>
  /\ pollOutcome = "none"
  /\ outstanding = <<>>
  /\ upserted = {}
  /\ itemsFor = NoItems
  /\ lastState = NoState
  /\ volumeLog = NoLog

\* the client after construction
ClientInit ==
  /\ ws = NoSocket
  /\ baseUrl = ""
  /\ authToken = ""
  /\ state = "disconnected"
  /\ message = <<"Not connected.">>
  /\ authenticated = FALSE
  /\ serverInfo = NullInfo
  /\ pending = <<>>
  /\ connectPromise = NoPromise
  /\ sockState = [s \in SockIds |-> "NONE"]
  /\ attached = [s \in SockIds |-> FALSE]
  /\ connSettled = [s \in SockIds |-> FALSE]
  /\ connectTimer = [s \in SockIds |-> NoTimer]
  /\ timers = <<>>
  /\ microtasks = <<>>
  /\ nextId = 1
  /\ nextSock = 1
  /\ awaiters = [id \in ReqIds |-> NoAwaiter]
  /\ settled = [id \in ReqIds |-> <<>>]
  /\ commandOf = [id \in ReqIds |-> ""]
  /\ written = <<>>
  /\ lastSnapshot = [state |-> "disconnected", message |-> <<"Not connected.">>,
                     connected |-> FALSE, authenticated |-> FALSE,
                     authRequired |-> FALSE, serverInfo |-> NullInfo]
  /\ teardowns = 0
  /\ streamed = [id \in ReqIds |-> <<>>]
  /\ lastSettled = <<>>
  /\ lastFrame = NoFrame
  /\ connectOutcomes = <<>>
  /\ threw = FALSE

Init == ClientInit /\ HostInit

Next ==
  \/ \E token \in SettingsTokens : ConnectWithSettings(token)
  \/ \E token \in SettingsTokens : EnsureConnected(token)
  \/ \E reason \in DisconnectReasons : Disconnect(reason)
  \/ SendCommand("players/all")
  \/ ProviderLogin
  \/ \E s \in SockIds : SocketOpen(s)
  \/ \E s \in SockIds : SocketConnectError(s)
  \/ \E s \in SockIds : ConnectTimeout(s)
  \/ \E s \in SockIds, after \in {"OPEN", "CLOSING"} : SocketError(s, after)
  \/ \E s \in SockIds : SocketClose(s)
  \/ \E s \in SockIds : \E f \in Frames(Cur) : SocketMessage(s, f)
  \/ \E id \in ReqIds : CommandTimeout(id)
  \/ Tick
  \/ RunMicrotask

Spec == Init /\ [][Next]_vars

\* =================================================================== host
\* index.ts: the poll cycle, the caches and the player selection.  The host
\* sees the client through isConnected, isAuthenticated and sendCommand; the
\* session is opened and lost with the client's own operations, and a command
\* the host sent is answered by one resolve or one reject.
PlayerIds == 1..MaxPlayers

\* an id no cached player has
UnknownId == MaxPlayers + 1

\* MAPlayer, with the fields index.ts reads; 0 is a missing or blank id and
\* <<>> a missing volume_level
Player(id, synced, group, members, volume, source) ==
  [player_id |-> id, synced_to |-> synced, active_group |-> group,
   group_members |-> members, volume_level |-> volume,
   active_source |-> source]

PlainPlayer(id, source) == Player(id, 0, 0, <<>>, <<>>, source)

\* null, as returned by find(...) || null
NullPlayer == PlainPlayer(NoPlayer, 0)

\* an MAQueue: its queue_id, player_id (0: absent) and state ("": absent)
QueueWith(qid, pid, st) == [queue_id |-> qid, player_id |-> pid, state |-> st]

Queue(qid, pid) == QueueWith(qid, pid, "")

NullQueue == Queue(0, 0)

\* the first index of seq whose element satisfies Test, 0 if there is none
FirstIndex(seq, Test(_)) ==
  IF \E i \in DOMAIN seq : Test(seq[i])
  THEN CHOOSE i \in DOMAIN seq :
         Test(seq[i]) /\ \A j \in 1..(i - 1) : ~Test(seq[j])
  ELSE 0

findPlayerIn(cache, playerId) ==
  IF playerId = NoPlayer THEN NullPlayer
  ELSE LET Is(p) == p.player_id = playerId
           i == FirstIndex(cache, Is)
       IN IF i = 0 THEN NullPlayer ELSE cache[i]

findPlayerById(H, playerId) == findPlayerIn(H.playersCache, playerId)

\* pickSelectedPlayerId that never falls back to the first player
pickSelectedPlayerIdNoFirst(players, preferredPlayerId, defaultId) ==
  LET ids == {players[i].player_id : i \in DOMAIN players} IN
  IF preferredPlayerId # NoPlayer /\ preferredPlayerId \in ids
  THEN preferredPlayerId
  ELSE IF defaultId # NoPlayer /\ defaultId \in ids
  THEN defaultId
  ELSE NoPlayer

pickSelectedPlayerId(players, preferredPlayerId, defaultId) ==
  LET ids == {players[i].player_id : i \in DOMAIN players} IN
  IF preferredPlayerId # NoPlayer /\ preferredPlayerId \in ids
  THEN preferredPlayerId
  ELSE IF defaultId # NoPlayer /\ defaultId \in ids
  THEN defaultId
  ELSE IF Len(players) > 0
  THEN players[1].player_id
  ELSE NoPlayer

resolveQueueForPlayer(H, player) ==
  IF player = NullPlayer THEN NullQueue
  ELSE LET ByPlayer(q) == q.player_id = player.player_id
                          \/ q.queue_id = player.player_id
           BySource(q) == q.queue_id = player.active_source
           i == FirstIndex(H.queuesCache, ByPlayer)
           j == FirstIndex(H.queuesCache, BySource)
       IN IF i # 0 THEN H.queuesCache[i]
          ELSE IF player.active_source # 0 /\ j # 0 THEN H.queuesCache[j]
          ELSE NullQueue

\* the host's state as one record, like Cur for the client
HostCur ==
  [pollInFlight |-> pollInFlight, pollAgain |-> pollAgain,
   playersCache |-> playersCache, queuesCache |-> queuesCache,
   queueItemsCache |-> queueItemsCache,
   selectedPlayerId |-> selectedPlayerId, pollPc |-> pollPc,
   defaultPlayerId |-> defaultPlayerId, pollDefault |-> pollDefault,
   missed |-> missed, started |-> started, completed |-> completed,
   sent |-> sent, emitted |-> emitted, lastCall |-> lastCall,
   volumeJobs |-> volumeJobs, calls |-> calls,
   setJob |-> setJob, errorRequests |-> errorRequests,
   pollOutcome |-> pollOutcome, outstanding |-> outstanding,
   upserted |-> upserted, itemsFor |-> itemsFor, lastState |-> lastState,
   volumeLog |-> volumeLog]

HostStart == [HostCur EXCEPT !.sent = <<>>, !.emitted = <<>>,
                             !.lastCall = NoCall, !.errorRequests = <<>>,
                             !.pollOutcome = "none", !.lastState = NoState]

CommitHost(H) ==
  /\ pollInFlight' = H.pollInFlight /\ pollAgain' = H.pollAgain
  /\ playersCache' = H.playersCache /\ queuesCache' = H.queuesCache
  /\ queueItemsCache' = H.queueItemsCache
  /\ selectedPlayerId' = H.selectedPlayerId /\ pollPc' = H.pollPc
  /\ defaultPlayerId' = H.defaultPlayerId /\ pollDefault' = H.pollDefault
  /\ missed' = H.missed /\ started' = H.started
  /\ completed' = H.completed
  /\ sent' = H.sent /\ emitted' = H.emitted /\ lastCall' = H.lastCall
  /\ volumeJobs' = H.volumeJobs /\ calls' = H.calls
  /\ setJob' = H.setJob /\ errorRequests' = H.errorRequests
  /\ pollOutcome' = H.pollOutcome /\ outstanding' = H.outstanding
  /\ upserted' = H.upserted
  /\ itemsFor' = H.itemsFor /\ lastState' = H.lastState
  /\ volumeLog' = H.volumeLog

emitStatus(H) == [H EXCEPT !.emitted = Append(@, "maStatus")]

emitError(H, request) ==
  [H EXCEPT !.emitted = Append(@, "maError"),
            !.errorRequests = Append(@, request)]

\* emit('maPlayers', ...); emit('maState', payload): the payload carries the
\* selection, the queue resolved from it and the cached items
emitPlayersAndState(H) ==
  LET selectedPlayer == findPlayerById(H, H.selectedPlayerId)
      selectedQueue == resolveQueueForPlayer(H, selectedPlayer)
  IN [H EXCEPT !.emitted = @ \o <<"maPlayers", "maState">>,
               !.lastState = [emitted |-> TRUE,
                              selectedPlayerId |-> H.selectedPlayerId,
                              queue_id |-> selectedQueue.queue_id,
                              queueItems |-> H.queueItemsCache,
                              itemsOf |-> H.itemsFor.cached]]

\* a command handed to maClient.sendCommand on an open socket
Command(command, playerId, level) ==
  [command |-> command, player_id |-> playerId, volume_level |-> level,
   player_ids_to_add |-> <<>>]

\* 'players/cmd/set_members' with its target_player and player_ids_to_add
MembersCommand(leaderPlayerId, ids) ==
  [command |-> "players/cmd/set_members", player_id |-> leaderPlayerId,
   volume_level |-> <<>>, player_ids_to_add |-> ids]

hostSend(H, command, playerId, level) ==
  [H EXCEPT !.sent = Append(@, Command(command, playerId, level))]

\* the commands not answered yet, after every command of the cycle was
answered(seq, cycle) == SelectSeq(seq, LAMBDA n : n # cycle)

\* the commands not answered yet, after one command of the cycle was
RECURSIVE answeredOne(_, _)
answeredOne(seq, cycle) ==
  IF seq = <<>> THEN <<>>
  ELSE IF Head(seq) = cycle THEN Tail(seq)
  ELSE <<Head(seq)>> \o answeredOne(Tail(seq), cycle)

\* the start of a cycle: the guard, the settings, the two commands
pollBegin(H) ==
  LET H1 == [H EXCEPT !.pollInFlight = TRUE, !.pollPc = "fetch",
                      !.pollDefault = H.defaultPlayerId,
                      !.started = @ + 1, !.missed = 0,
                      !.outstanding = @ \o <<H.started + 1, H.started + 1>>]
      H2 == hostSend(H1, "players/all", NoPlayer, <<>>)
  IN hostSend(H2, "player_queues/all", NoPlayer, <<>>)

\* pollState without the test of isAuthenticated
pollStateNoAuthCheck(H, C) ==
  IF H.pollInFlight
  THEN [H EXCEPT !.pollAgain = TRUE, !.missed = @ + 1]
  ELSE IF ~isConnected(C) THEN emitStatus(H)
  ELSE pollBegin(H)

\* pollState() up to its first await; C is the client's state
pollState(H, C) ==
  IF H.pollInFlight
  THEN [H EXCEPT !.pollAgain = TRUE, !.missed = @ + 1]
  ELSE IF ~isConnected(C) THEN emitStatus(H)
  ELSE IF ~isAuthenticated(C) THEN emitStatus(H)
  ELSE pollBegin(H)

\* a finally block that forgets the trailing request
pollFinallyDropsTrailing(H, C) ==
  [H EXCEPT !.pollInFlight = FALSE, !.pollPc = "idle",
            !.completed = @ + 1, !.missed = 0, !.pollAgain = FALSE,
            !.lastCall = [op |-> "pollFinally", missed |-> H.missed]]

\* the finally block of pollState
pollFinally(H, C) ==
  LET H1 == [H EXCEPT !.pollInFlight = FALSE, !.pollPc = "idle",
                      !.completed = @ + 1, !.missed = 0,
                      !.lastCall = [op |-> "pollFinally", missed |-> H.missed]]
  IN IF H1.pollAgain
     THEN pollState([H1 EXCEPT !.pollAgain = FALSE], C)
     ELSE H1

\* the end of the try block: emitPlayersAndState(); emitStatus(); finally
pollDone(H, C) == pollFinally(emitStatus(emitPlayersAndState(H)), C)

\* pollState() after Promise.all resolved with the two results
pollFetched(H, C, players, queues) ==
  LET H1 == [H EXCEPT
               !.playersCache = IF players.isArray THEN players.items ELSE <<>>,
               !.queuesCache = IF queues.isArray THEN queues.items ELSE <<>>,
               !.outstanding = answered(@, H.started),
               !.pollOutcome = "done"]
      H2 == [H1 EXCEPT !.selectedPlayerId =
               pickSelectedPlayerId(H1.playersCache, H.selectedPlayerId,
                                    H.pollDefault)]
      selectedPlayer == findPlayerById(H2, H2.selectedPlayerId)
      selectedQueue == resolveQueueForPlayer(H2, selectedPlayer)
  IN IF selectedQueue.queue_id # 0
     THEN IF sendCommandThrows(C)
          THEN pollDone([H2 EXCEPT !.queueItemsCache = <<>>,
                                   !.itemsFor = NoItems], C)
          ELSE [hostSend(H2, "player_queues/items", NoPlayer, <<>>)
                  EXCEPT !.pollPc = "items", !.pollOutcome = "none",
                         !.outstanding = Append(@, H.started),
                         !.itemsFor.requested = selectedQueue.queue_id]
     ELSE pollDone([H2 EXCEPT !.queueItemsCache = <<>>,
                              !.itemsFor = NoItems], C)

\* an outer catch block that also forgets the queue items
pollFetchFailedClearsItems(H, C) ==
  pollFinally(emitStatus(emitError([H EXCEPT !.pollOutcome = "failed",
                                             !.queueItemsCache = <<>>],
                                   "ma:poll")), C)

\* the outer catch block: one of the two commands was rejected
pollFetchFailed(H, C) ==
  pollFinally(emitStatus(emitError([H EXCEPT !.pollOutcome = "failed"],
                                   "ma:poll")), C)

\* queueItemsCache = Array.isArray(items) ? items : []
pollItemsFetched(H, C, items) ==
  pollDone([H EXCEPT !.queueItemsCache =
              IF items.isArray THEN items.items ELSE <<>>,
              !.itemsFor = IF items.isArray /\ items.items # <<>>
                           THEN [requested |-> 0,
                                 cached |-> H.itemsFor.requested]
                           ELSE NoItems,
              !.outstanding = answered(@, H.started),
              !.pollOutcome = "done"], C)

\* an items command whose rejection reaches the outer catch block
pollItemsFailedRethrows(H, C) ==
  pollFinally(emitStatus(emitError(
    [H EXCEPT !.outstanding = answered(@, H.started),
              !.pollOutcome = "items-failed"], "ma:poll")), C)

\* the inner catch block: the items command was rejected
pollItemsFailed(H, C) ==
  pollDone([H EXCEPT !.queueItemsCache = <<>>,
                     !.itemsFor = NoItems,
                     !.outstanding = answered(@, H.started),
                     !.pollOutcome = "items-failed"], C)

\* the commands of the cycle in flight are rejected by a teardown, and the
\* cycle runs to its end before anything else happens
pollRejected(H, C) ==
  IF H.pollPc = "fetch" THEN pollFetchFailed(H, C)
  ELSE IF H.pollPc = "items" THEN pollItemsFailed(H, C)
  ELSE H

\* the status listener registered by start(): one maStatus per updateStatus
statusListener(H, n) == [H EXCEPT !.emitted = @ \o [i \in 1..n |-> "maStatus"]]

\* connect(), the socket opens, connect() resumes
sessionOpened(S) ==
  LET S1 == connect(setCredentials(S, "http://ma", ""))
      s == S1.ws
      S2 == updateStatus([S1 EXCEPT !.sockState[s] = "OPEN",
                                    !.connectTimer[s] = NoTimer],
                         "connected",
                         <<"Connected. Waiting for server info">>, FALSE)
      S3 == settleOpenPromise(S2, s, TRUE, <<>>)
  IN connectResume([S3 EXCEPT !.microtasks = Tail(@)], Head(S3.microtasks))

\* ======================================================== players, volume
\* normalizePlayerIdList: the entries that are non-blank strings, in order;
\* 0 stands for an entry that is blank or not a string (ids are atoms here,
\* so trim() has nothing to remove from the others)
normalizePlayerIdList(values) == SelectSeq(values, LAMBDA v : v # 0)

\* Array.from(new Set(ids)): the first occurrence of each id, in order
Unique(ids) ==
  LET F[i \in 0..Len(ids)] ==
        IF i = 0 THEN <<>>
        ELSE IF \E j \in 1..(i - 1) : ids[j] = ids[i] THEN F[i - 1]
        ELSE Append(F[i - 1], ids[i])
  IN F[Len(ids)]

\* synced_to if it is a non-blank string, else active_group, else null (0)
parentId(current) ==
  IF current.synced_to # 0 THEN current.synced_to ELSE current.active_group

\* the while loop of resolveControllingPlayer: the player it ends on, the
\* number of times it moved to a parent, and whether the cycle guard ended it
RECURSIVE resolveControllingPlayerLoop(_, _, _, _)
resolveControllingPlayerLoop(H, current, visited, hops) ==
  IF current = NullPlayer
  THEN [player |-> current, hops |-> hops, revisited |-> FALSE]
  ELSE IF current.player_id \in visited
  THEN [player |-> current, hops |-> hops, revisited |-> TRUE]
  ELSE IF parentId(current) = 0 \/ parentId(current) = current.player_id
  THEN [player |-> current, hops |-> hops, revisited |-> FALSE]
  ELSE LET parent == findPlayerById(H, parentId(current))
       IN IF parent = NullPlayer
          THEN [player |-> current, hops |-> hops, revisited |-> FALSE]
          ELSE resolveControllingPlayerLoop(
                 H, parent, visited \cup {current.player_id}, hops + 1)

resolveControllingPlayerRun(H, playerId) ==
  resolveControllingPlayerLoop(H, findPlayerById(H, playerId), {}, 0)

\* resolveControllingPlayer that gives up with null when it meets a cycle
resolveControllingPlayerNullOnCycle(H, playerId) ==
  LET r == resolveControllingPlayerRun(H, playerId)
  IN IF r.revisited THEN NullPlayer ELSE r.player

resolveControllingPlayer(H, playerId) ==
  resolveControllingPlayerRun(H, playerId).player

\* getVolumeTargetPlayerIds that takes the controller's members as soon as
\* there is one
getVolumeTargetPlayerIdsAnyMember(H, scope, explicitPlayerIds) ==
  LET explicit == normalizePlayerIdList(explicitPlayerIds)
      selected == findPlayerById(H, H.selectedPlayerId)
      resolved == resolveControllingPlayer(H, selected.player_id)
      controller == IF resolved # NullPlayer THEN resolved ELSE selected
      groupMembers == normalizePlayerIdList(controller.group_members)
      ids == IF Len(groupMembers) > 0 THEN groupMembers
             ELSE normalizePlayerIdList(selected.group_members)
  IN IF Len(explicit) > 0 THEN [threw |-> FALSE, ids |-> Unique(explicit)]
     ELSE IF selected = NullPlayer THEN [threw |-> TRUE, ids |-> <<>>]
     ELSE IF scope = "selected"
     THEN [threw |-> FALSE, ids |-> <<selected.player_id>>]
     ELSE IF Len(ids) > 0 THEN [threw |-> FALSE, ids |-> Unique(ids)]
     ELSE [threw |-> FALSE, ids |-> <<selected.player_id>>]

\* threw: 'No player selected.'
getVolumeTargetPlayerIds(H, scope, explicitPlayerIds) ==
  LET explicit == normalizePlayerIdList(explicitPlayerIds)
      selected == findPlayerById(H, H.selectedPlayerId)
      resolved == resolveControllingPlayer(H, selected.player_id)
      controller == IF resolved # NullPlayer THEN resolved ELSE selected
      groupMembers == normalizePlayerIdList(controller.group_members)
      ids == IF Len(groupMembers) > 1 THEN groupMembers
             ELSE normalizePlayerIdList(selected.group_members)
  IN IF Len(explicit) > 0 THEN [threw |-> FALSE, ids |-> Unique(explicit)]
     ELSE IF selected = NullPlayer THEN [threw |-> TRUE, ids |-> <<>>]
     ELSE IF scope = "selected"
     THEN [threw |-> FALSE, ids |-> <<selected.player_id>>]
     ELSE IF Len(ids) > 0 THEN [threw |-> FALSE, ids |-> Unique(ids)]
     ELSE [threw |-> FALSE, ids |-> <<selected.player_id>>]

\* clamp without the upper limit
clampLowOnly(value, min, max) == IF value < min THEN min ELSE value

\* Math.min(max, Math.max(min, value))
clamp(value, min, max) ==
  LET low == IF value < min THEN min ELSE value
  IN IF low > max THEN max ELSE low

\* Math.round of a number given in halves (5 is 2.5): the nearest integer,
\* a tie going up
MathRound(halves) == (halves + 1) \div 2

\* the cached volume_level of a player if it is a number, else "not cached"
cachedVolume(H, playerId) == findPlayerById(H, playerId).volume_level

\* the callback of adjustVolume for one target, up to its first suspension:
\* with a cached volume it sends volume_set; without one getCurrentVolume
\* sends 'players/get' and the callback waits for the answer
adjustOne(H, call, playerId, volumeDelta) ==
  IF cachedVolume(H, playerId) # <<>>
  THEN hostSend(H, "players/cmd/volume_set", playerId,
                <<clamp(cachedVolume(H, playerId)[1] + volumeDelta, 0, 100)>>)
  ELSE [hostSend(H, "players/get", playerId, <<>>) EXCEPT
          !.volumeJobs = Append(@, [call |-> call, player_id |-> playerId,
                                    volumeDelta |-> volumeDelta,
                                    pc |-> "get"])]

RECURSIVE adjustAll(_, _, _, _)
adjustAll(H, call, ids, volumeDelta) ==
  IF ids = <<>> THEN H
  ELSE adjustAll(adjustOne(H, call, Head(ids), volumeDelta), call, Tail(ids),
                 volumeDelta)

\* 'ma:adjustVolume' and adjustVolume(delta, scope, explicitPlayerIds), delta
\* in halves.  A throw of getVolumeTargetPlayerIds or of sendCommand (socket
\* not open: every callback throws at its first command) ends in the catch
\* block of handleSet.  The poll that adjustVolume schedules when every
\* command was answered is one of the triggers of the poll cycle.
adjustVolume(H, C, delta, scope, explicitPlayerIds) ==
  LET targetPlayerIds == getVolumeTargetPlayerIds(H, scope, explicitPlayerIds)
      uniqueIds == Unique(targetPlayerIds.ids)
      volumeDelta == MathRound(delta)
      H1 == [H EXCEPT !.calls = @ + 1,
                      !.lastCall = [op |-> "adjustVolume", delta |-> delta,
                                    scope |-> scope,
                                    explicit |-> explicitPlayerIds,
                                    targets |-> targetPlayerIds,
                                    open |-> ~sendCommandThrows(C)]]
  IN IF targetPlayerIds.threw THEN emitError(H1, "ma:adjustVolume")
     ELSE IF sendCommandThrows(C) THEN emitError(H1, "ma:adjustVolume")
     ELSE adjustAll(H1, H1.calls, uniqueIds, volumeDelta)

\* whether a callback of the same call of adjustVolume has failed already,
\* so that Promise.all is rejected and the error emitted
callFailed(H, call) ==
  \E i \in DOMAIN H.volumeJobs :
    H.volumeJobs[i].call = call /\ H.volumeJobs[i].pc = "failed"

RemoveAt(seq, i) == SubSeq(seq, 1, i - 1) \o SubSeq(seq, i + 1, Len(seq))

\* 'players/get' is answered: the fresh volume_level if it is a number, else
\* 0, and the volume_set of the callback
playerGetResolved(H, i, fresh) ==
  LET job == H.volumeJobs[i]
      currentVolume == IF fresh # <<>> THEN fresh[1] ELSE 0
      H1 == [H EXCEPT !.volumeJobs = RemoveAt(@, i)]
  IN hostSend(H1, "players/cmd/volume_set", job.player_id,
              <<clamp(currentVolume + job.volumeDelta, 0, 100)>>)

\* 'players/get' is rejected: the callback throws, and the first callback of
\* a call to throw rejects Promise.all
playerGetFailed(H, i) ==
  LET job == H.volumeJobs[i]
      H1 == [H EXCEPT !.volumeJobs[i].pc = "failed"]
  IN IF callFailed(H, job.call) THEN H1
     ELSE emitError(H1, "ma:adjustVolume")

RECURSIVE volumeJobsRejected(_, _)
volumeJobsRejected(H, i) ==
  IF i > Len(H.volumeJobs) THEN H
  ELSE IF H.volumeJobs[i].pc = "get"
  THEN volumeJobsRejected(playerGetFailed(H, i), i + 1)
  ELSE volumeJobsRejected(H, i + 1)

\* ------------------------------------------------------- 'ma:groupPlayer'
\* getTargetPlayerId(): the controlling player of the selection, else the
\* selected player; throws when there is none
getTargetPlayerId(H) ==
  LET resolved == resolveControllingPlayer(H, H.selectedPlayerId)
      targetPlayer == IF resolved # NullPlayer THEN resolved
                      ELSE findPlayerById(H, H.selectedPlayerId)
  IN [threw |-> targetPlayer.player_id = NoPlayer,
      id |-> targetPlayer.player_id]

\* the catch block of handleSet
handleSetFailed(H, request) == emitError([H EXCEPT !.setJob = NoJob], request)

\* the second command of 'ma:groupPlayer': set_members for the leader
groupSetMembers(H, C, leaderPlayerId, targetPlayerId) ==
  IF sendCommandThrows(C) THEN handleSetFailed(H, "ma:groupPlayer")
  ELSE [H EXCEPT
          !.sent = Append(@, MembersCommand(leaderPlayerId,
                                            <<targetPlayerId>>)),
          !.setJob = [pc |-> "set_members", playerId |-> leaderPlayerId,
                      targetPlayerId |-> targetPlayerId]]

\* a handler that joins the target without taking it out of its group
groupPlayerKeepsParent(H, C, targetPlayerId) ==
  LET leader == getTargetPlayerId(H)
      H1 == [H EXCEPT !.calls = @ + 1,
                      !.lastCall = [op |-> "groupPlayer", leader |-> leader,
                                    targetPlayerId |-> targetPlayerId,
                                    open |-> ~sendCommandThrows(C)]]
  IN IF leader.threw \/ targetPlayerId = NoPlayer
        \/ targetPlayerId = leader.id
     THEN handleSetFailed(H1, "ma:groupPlayer")
     ELSE groupSetMembers(H1, C, leader.id, targetPlayerId)

\* 'ma:groupPlayer' up to its first await; 0 stands for a payload without
\* targetPlayerId
groupPlayer(H, C, targetPlayerId) ==
  LET leader == getTargetPlayerId(H)
      targetPlayer == findPlayerById(H, targetPlayerId)
      existingParentId == parentId(targetPlayer)
      H1 == [H EXCEPT !.calls = @ + 1,
                      !.lastCall = [op |-> "groupPlayer", leader |-> leader,
                                    targetPlayerId |-> targetPlayerId,
                                    open |-> ~sendCommandThrows(C)]]
  IN IF leader.threw \/ targetPlayerId = NoPlayer
        \/ targetPlayerId = leader.id
     THEN handleSetFailed(H1, "ma:groupPlayer")
     ELSE IF existingParentId # 0 /\ existingParentId # leader.id
     THEN IF sendCommandThrows(C)
          THEN handleSetFailed(H1, "ma:groupPlayer")
          ELSE [hostSend(H1, "players/cmd/ungroup", targetPlayerId, <<>>)
                  EXCEPT !.setJob = [pc |-> "ungroup",
                                     playerId |-> leader.id,
                                     targetPlayerId |-> targetPlayerId]]
     ELSE groupSetMembers(H1, C, leader.id, targetPlayerId)

\* 'players/cmd/ungroup' is answered: the handler goes on to set_members
ungroupResolved(H, C) ==
  groupSetMembers([H EXCEPT !.lastCall = [op |-> "ungroupResolved"]], C,
                  H.setJob.playerId, H.setJob.targetPlayerId)

\* 'players/cmd/ungroup' is rejected: the catch block of handleSet
ungroupFailed(H) ==
  handleSetFailed([H EXCEPT !.lastCall = [op |-> "ungroupFailed"]],
                  "ma:groupPlayer")

\* set_members is answered: the leader becomes the selection
setMembersResolved(H) ==
  emitPlayersAndState(
    [H EXCEPT !.selectedPlayerId = H.setJob.playerId, !.setJob = NoJob,
              !.lastCall = [op |-> "setMembersResolved"]])

setMembersFailed(H) ==
  handleSetFailed([H EXCEPT !.lastCall = [op |-> "setMembersFailed"]],
                  "ma:groupPlayer")

\* ----------------------------------------------------- 'ma:transferQueue'
\* getTargetQueueId(): the queue of the controlling (else selected) player,
\* else that player's id; throws when there is neither
getTargetQueueId(H) ==
  LET resolved == resolveControllingPlayer(H, H.selectedPlayerId)
      selectedPlayer == IF resolved # NullPlayer THEN resolved
                        ELSE findPlayerById(H, H.selectedPlayerId)
      selectedQueue == resolveQueueForPlayer(H, selectedPlayer)
      id == IF selectedQueue.queue_id # 0 THEN selectedQueue.queue_id
            ELSE selectedPlayer.player_id
  IN [threw |-> id = 0, id |-> id]

\* { ...old, ...queue }: the fields present in queue override those of old
spreadQueue(old, queue) ==
  [queue_id |-> IF queue.queue_id # 0 THEN queue.queue_id ELSE old.queue_id,
   player_id |-> IF queue.player_id # 0 THEN queue.player_id
                 ELSE old.player_id,
   state |-> IF queue.state # "" THEN queue.state ELSE old.state]

\* upsertQueue(queue): the first cached queue with the same queue_id or the
\* same player_id is overwritten with the merged fields, else queue is
\* appended
upsertQueue(H, queue) ==
  LET Match(item) == \/ item.queue_id = queue.queue_id
                     \/ (queue.player_id # 0
                         /\ item.player_id = queue.player_id)
      index == FirstIndex(H.queuesCache, Match)
      H1 == [H EXCEPT !.lastCall = [op |-> "upsertQueue",
                                    before |-> H.queuesCache,
                                    queue |-> queue],
                      !.upserted = @ \cup {queue.queue_id}]
  IN IF index # 0
     THEN [H1 EXCEPT !.queuesCache[index] = spreadQueue(@, queue)]
     ELSE [H1 EXCEPT !.queuesCache = Append(@, queue)]

\* 'player_queues/transfer' with its source_queue_id (kept in player_id) and
\* target_queue_id (kept in player_ids_to_add)
TransferCommand(sourceQueueId, targetQueueId) ==
  [command |-> "player_queues/transfer", player_id |-> sourceQueueId,
   volume_level |-> <<>>, player_ids_to_add |-> <<targetQueueId>>]

\* 'ma:transferQueue' once both queue ids are known
transferQueueIds(H, C, sourceQueueId, targetPlayerId, targetQueueId) ==
  IF sourceQueueId = targetQueueId
  THEN [H EXCEPT !.selectedPlayerId = targetPlayerId, !.setJob = NoJob]
  ELSE IF sendCommandThrows(C) THEN handleSetFailed(H, "ma:transferQueue")
  ELSE [H EXCEPT
          !.sent = Append(@, TransferCommand(sourceQueueId, targetQueueId)),
          !.setJob = [pc |-> "transfer", playerId |-> sourceQueueId,
                      targetPlayerId |-> targetPlayerId]]

\* 'ma:transferQueue' up to its first await on a command; the call of
\* resolveQueueIdForPlayer returns the cached queue of the target if there
\* is one and asks the server if not
transferQueue(H, C, targetPlayerId) ==
  LET sourceQueueId == getTargetQueueId(H)
      found == findPlayerById(H, targetPlayerId)
      cachedPlayer == IF found # NullPlayer THEN found
                      ELSE PlainPlayer(targetPlayerId, 0)
      cachedQueue == resolveQueueForPlayer(H, cachedPlayer)
      H1 == [H EXCEPT !.calls = @ + 1,
                      !.lastCall = [op |-> "transferQueue",
                                    targetPlayerId |-> targetPlayerId]]
  IN IF targetPlayerId = NoPlayer \/ sourceQueueId.threw
     THEN handleSetFailed(H1, "ma:transferQueue")
     ELSE IF cachedQueue.queue_id # 0
     THEN transferQueueIds(H1, C, sourceQueueId.id, targetPlayerId,
                           cachedQueue.queue_id)
     ELSE IF sendCommandThrows(C)
     THEN handleSetFailed(H1, "ma:transferQueue")
     ELSE [hostSend(H1, "player_queues/get_active_queue", targetPlayerId,
                    <<>>)
             EXCEPT !.setJob = [pc |-> "get_active_queue",
                                playerId |-> sourceQueueId.id,
                                targetPlayerId |-> targetPlayerId]]

\* 'player_queues/get_active_queue' is answered; queue_id 0 stands for an
\* answer that is null or has no usable queue_id
activeQueueResolved(H, C, queue) ==
  IF queue.queue_id = 0 THEN handleSetFailed(H, "ma:transferQueue")
  ELSE LET playerId == H.setJob.targetPlayerId
           H1 == upsertQueue(H, [queue EXCEPT !.player_id =
                                   IF @ # 0 THEN @ ELSE playerId])
       IN transferQueueIds(H1, C, H.setJob.playerId, playerId,
                           queue.queue_id)

\* 'player_queues/transfer' is answered
transferResolved(H) ==
  emitPlayersAndState(
    [H EXCEPT !.selectedPlayerId = H.setJob.targetPlayerId,
              !.queueItemsCache = <<>>, !.itemsFor.cached = 0,
              !.setJob = NoJob])

\* ---------------------------------------------------- actions of the poll
\* the session comes up: connectWithSettings and the socket's open event
SessionOpen ==
  /\ ws = NoSocket
  /\ nextSock <= MaxSockets
  /\ CommitClient([sessionOpened(Start) EXCEPT !.connectOutcomes = <<>>])
  /\ CommitHost(statusListener(HostStart, 3))

\* the server-info frame of a server that asks for no token
SessionAuthenticated ==
  /\ isConnected(Cur)
  /\ ~isAuthenticated(Cur)
  /\ CommitClient(handleMessage(Start, ServerInfoFrame(AUTH_SCHEMA_VERSION - 1)))
  /\ CommitHost(statusListener(HostStart, 1))

\* 'ma:disconnect': disconnect(), emitStatus(); the commands in flight are
\* rejected with the reason
SessionLost ==
  /\ ws # NoSocket
  /\ LET C == disconnect(Start, "Disconnected by user.")
     IN /\ CommitClient(C)
        /\ CommitHost(volumeJobsRejected(
                        pollRejected(emitStatus(statusListener(
                          [HostStart EXCEPT !.outstanding = <<>>], 1)),
                                     C), 1))

\* a call of pollState(): the interval, a scheduled poll, a direct call
PollTrigger ==
  /\ started < MaxCycles
  /\ pollInFlight => missed < MaxTriggers
  /\ CommitHost(pollState(HostStart, Cur))
  /\ UNCHANGED clientVars

PollFetched(players, queues) ==
  /\ pollPc = "fetch"
  /\ isConnected(Cur)
  /\ CommitHost(pollFetched(HostStart, Cur, players, queues))
  /\ UNCHANGED clientVars

\* an error result or the timeout of one of the two commands
PollFetchFailed ==
  /\ pollPc = "fetch"
  /\ CommitHost(pollFetchFailed(
                  [HostStart EXCEPT !.outstanding = answeredOne(@, started)],
                  Cur))
  /\ UNCHANGED clientVars

\* a command of a cycle that has ended is answered, or its timer fires: the
\* promise is settled and nobody awaits it
PollAnswerLate(i) ==
  /\ i \in DOMAIN outstanding
  /\ ~(pollInFlight /\ outstanding[i] = started)
  /\ CommitHost([HostStart EXCEPT !.outstanding = RemoveAt(@, i)])
  /\ UNCHANGED clientVars

PollItemsFetched(items) ==
  /\ pollPc = "items"
  /\ isConnected(Cur)
  /\ CommitHost(pollItemsFetched(HostStart, Cur, items))
  /\ UNCHANGED clientVars

PollItemsFailed ==
  /\ pollPc = "items"
  /\ CommitHost(pollItemsFailed(HostStart, Cur))
  /\ UNCHANGED clientVars

\* 'ma:selectPlayer' for a cached player that is not the selected one
SelectPlayer(playerId) ==
  /\ playerId # NoPlayer
  /\ \E i \in DOMAIN playersCache : playersCache[i].player_id = playerId
  /\ playerId # selectedPlayerId
  /\ CommitHost(emitPlayersAndState(
                  [HostStart EXCEPT !.selectedPlayerId = playerId,
                                    !.queueItemsCache = <<>>,
                                    !.itemsFor.cached = 0]))
  /\ UNCHANGED clientVars

\* the user changes the default player in the settings
SettingsChanged(d) ==
  /\ d # defaultPlayerId
  /\ CommitHost([HostStart EXCEPT !.defaultPlayerId = d])
  /\ UNCHANGED clientVars

\* the player lists, queue lists and item lists a server may answer with
PollPlayers ==
  {<<>>}
  \cup {<<PlainPlayer(a, src)>> : a \in PlayerIds, src \in {0, UnknownId}}
  \cup {<<PlainPlayer(ab[1], 0), PlainPlayer(ab[2], 0)>> :
          ab \in {x \in PlayerIds \X PlayerIds : x[1] # x[2]}}

PollQueues ==
  {<<>>, <<Queue(1, 1)>>, <<Queue(0, 1)>>, <<Queue(UnknownId, 0)>>}

PollItems == {Arr(<<>>), Arr(<<1>>), NonArray}

DefaultPlayerIds == {NoPlayer} \cup PlayerIds

PollNext ==
  \/ SessionOpen
  \/ SessionAuthenticated
  \/ SessionLost
  \/ PollTrigger
  \/ \E players \in {Arr(l) : l \in PollPlayers} \cup {NonArray},
        queues \in {Arr(l) : l \in PollQueues} \cup {NonArray} :
       PollFetched(players, queues)
  \/ PollFetchFailed
  \/ \E i \in DOMAIN outstanding : PollAnswerLate(i)
  \/ \E items \in PollItems : PollItemsFetched(items)
  \/ PollItemsFailed
  \/ \E playerId \in PlayerIds : SelectPlayer(playerId)
  \/ \E d \in DefaultPlayerIds : SettingsChanged(d)

PollSpec == Init /\ [][PollNext]_vars

\* ------------------------------------- actions of the players and volume
\* the players a server may report: the links to a parent, the group
\* members (with a blank and a repeated entry) and the volumes
PlayerLinks(id) ==
  {<<0, 0>>}
  \cup UNION {{<<o, 0>>, <<0, o>>, <<id, o>>, <<UnknownId, o>>} :
                o \in PlayerIds \ {id}}

PlayerMembers(id) == {<<>>, <<id>>, <<1, 0, 2, 1>>}

PlayerVolumes == {<<>>, <<30>>, <<50>>}

Players(id) ==
  {Player(id, l[1], l[2], m, v, 0) :
     l \in PlayerLinks(id), m \in PlayerMembers(id), v \in PlayerVolumes}

\* the lists of at most two players with distinct ids
PlayerCaches ==
  LET all == UNION {Players(id) : id \in PlayerIds}
  IN {<<>>}
     \cup {<<x>> : x \in all}
     \cup {<<c[1], c[2]>> :
             c \in {d \in all \X all : d[1].player_id # d[2].player_id}}

\* a call of pollState() as long as no cycle has started; the runs explored
\* make their calls of the player and volume functions outside the cycle,
\* after it or without it
PlayersPoll ==
  /\ started < MaxFetches
  /\ calls = 0
  /\ PollTrigger

\* the cycle fetches a list of players and no queue
PlayersFetched ==
  /\ pollPc = "fetch"
  /\ isConnected(Cur)
  /\ \E players \in PlayerCaches :
       CommitHost(pollFetched(HostStart, Cur, Arr(players), Arr(<<>>)))
  /\ UNCHANGED clientVars

\* resolveControllingPlayer(playerId), as called by getTargetPlayerId and
\* getVolumeTargetPlayerIds
ResolveControllingPlayer(playerId) ==
  /\ calls < MaxCalls
  /\ pollPc = "idle"
  /\ CommitHost([HostStart EXCEPT
       !.calls = @ + 1,
       !.lastCall = [op |-> "resolveControllingPlayer",
                     playerId |-> playerId,
                     player |-> resolveControllingPlayer(HostStart, playerId),
                     hops |-> resolveControllingPlayerRun(HostStart,
                                                          playerId).hops]])
  /\ UNCHANGED clientVars

\* getVolumeTargetPlayerIds(scope, explicitPlayerIds), as called by
\* setVolumeAbsolute and adjustVolume
GetVolumeTargetPlayerIds(scope, explicitPlayerIds) ==
  /\ calls < MaxCalls
  /\ pollPc = "idle"
  /\ CommitHost([HostStart EXCEPT
       !.calls = @ + 1,
       !.lastCall = [op |-> "getVolumeTargetPlayerIds", scope |-> scope,
                     explicit |-> explicitPlayerIds,
                     targets |-> getVolumeTargetPlayerIds(
                                   HostStart, scope, explicitPlayerIds)]])
  /\ UNCHANGED clientVars

\* 'ma:adjustVolume'
AdjustVolume(delta, scope, explicitPlayerIds) ==
  /\ calls < MaxCalls
  /\ pollPc = "idle"
  /\ CommitHost(adjustVolume(HostStart, Cur, delta, scope, explicitPlayerIds))
  /\ UNCHANGED clientVars

PlayerGetResolved(i, fresh) ==
  /\ i \in DOMAIN volumeJobs
  /\ volumeJobs[i].pc = "get"
  /\ isConnected(Cur)
  /\ CommitHost(playerGetResolved(HostStart, i, fresh))
  /\ UNCHANGED clientVars

\* an error result or the timeout of 'players/get'
PlayerGetFailed(i) ==
  /\ i \in DOMAIN volumeJobs
  /\ volumeJobs[i].pc = "get"
  /\ CommitHost(playerGetFailed(HostStart, i))
  /\ UNCHANGED clientVars

\* 'ma:groupPlayer' with a targetPlayerId (0: none in the payload)
GroupPlayer(targetPlayerId) ==
  /\ calls < MaxCalls
  /\ pollPc = "idle"
  /\ CommitHost(groupPlayer(HostStart, Cur, targetPlayerId))
  /\ UNCHANGED clientVars

UngroupResolved ==
  /\ setJob.pc = "ungroup"
  /\ isConnected(Cur)
  /\ CommitHost(ungroupResolved(HostStart, Cur))
  /\ UNCHANGED clientVars

\* an error result or the timeout of 'players/cmd/ungroup'
UngroupFailed ==
  /\ setJob.pc = "ungroup"
  /\ CommitHost(ungroupFailed(HostStart))
  /\ UNCHANGED clientVars

SetMembersResolved ==
  /\ setJob.pc = "set_members"
  /\ isConnected(Cur)
  /\ CommitHost(setMembersResolved(HostStart))
  /\ UNCHANGED clientVars

\* an error result or the timeout of 'players/cmd/set_members'
SetMembersFailed ==
  /\ setJob.pc = "set_members"
  /\ CommitHost(setMembersFailed(HostStart))
  /\ UNCHANGED clientVars

\* ------------------------------------------------- actions of the volume
\* One player whose volume only the adjustVolume requests of this client
\* change: the server reports the player with its volume to every poll
\* cycle, sets the volume to the level of each volume_set it answers and
\* answers every command.  The requests carry whole deltas (given in
\* halves) and follow one another: a request is made when the one before
\* it has completed.  The poll that a completed request schedules 250 ms
\* later is one of the triggers of the poll cycle, which may come before or
\* after the next request.
StartVolumes == {0, 30, 95}

VolumeDeltas == {-20, 10, 20}

\* the volume the server has for the player
serverVolume(log) ==
  IF log.sets # <<>> THEN log.sets[Len(log.sets)] ELSE log.v[1]

\* the volume_set commands among the commands sent
volumeSetLevels(commands) ==
  SelectSeq(commands, LAMBDA c : c.command = "players/cmd/volume_set")

\* the cycle fetches the player with the volume the server has for it; the
\* first cycle finds the volume the player had before any request
VolumeFetched ==
  /\ pollPc = "fetch"
  /\ isConnected(Cur)
  /\ \E v \in IF volumeLog.v = <<>> THEN StartVolumes
                ELSE {serverVolume(volumeLog)} :
       CommitHost([pollFetched(HostStart, Cur,
                               Arr(<<Player(1, 0, 0, <<>>, <<v>>, 0)>>),
                               Arr(<<>>))
                     EXCEPT !.volumeLog.v = <<IF volumeLog.v = <<>> THEN v
                                              ELSE volumeLog.v[1]>>])
  /\ UNCHANGED clientVars

\* the request is noted with its delta and the level of the volume_set it
\* issued
requestLogged(H, delta) ==
  LET levels == volumeSetLevels(H.sent)
  IN [H EXCEPT !.volumeLog.delta = delta,
               !.volumeLog.pending =
                 [i \in DOMAIN levels |-> levels[i].volume_level[1]]]

\* 'ma:adjustVolume' with scope selected for the player, once its volume is
\* known and the request before has completed
VolumeAdjust(delta) ==
  /\ volumeLog.v # <<>>
  /\ volumeLog.pending = <<>>
  /\ volumeLog.done < MaxAdjusts
  /\ volumeLog.done > 0 => delta = volumeLog.delta
  /\ isConnected(Cur)
  /\ CommitHost(requestLogged(
                  adjustVolume(HostStart, Cur, delta, "selected", <<>>),
                  delta))
  /\ UNCHANGED clientVars

\* 'players/cmd/volume_set' is answered: the server has set the volume, the
\* Promise.all of adjustVolume resolves and the request completes
VolumeSetAnswered ==
  /\ volumeLog.pending # <<>>
  /\ isConnected(Cur)
  /\ CommitHost([HostStart EXCEPT
                   !.volumeLog.sets = Append(@, volumeLog.pending[1]),
                   !.volumeLog.pending = <<>>,
                   !.volumeLog.done = @ + 1])
  /\ UNCHANGED clientVars

VolumeNext ==
  \/ SessionOpen
  \/ SessionAuthenticated
  \/ PollTrigger
  \/ VolumeFetched
  \/ \E delta \in VolumeDeltas : VolumeAdjust(delta)
  \/ VolumeSetAnswered

VolumeSpec == Init /\ [][VolumeNext]_vars

\* ---------------------------------------------- actions of the reconnect
\* Until the reconnect is requested the session goes through any of its
\* states; from the request on the server is reachable and accepts the
\* handshake: the socket of the attempt opens before its timer fires, the
\* server greets with its server info once and answers the auth command
\* with a success result, and nobody else touches the session.
Reconnecting == lastCall.op = "reconnect"

\* a handshake that terminate() aborted and whose 'error' event is still to
\* come; the socket library emits it on the next tick, before the host
\* handles another request
AbortPending ==
  \E s \in SockIds :
    sockState[s] = "CLOSING" /\ ~attached[s] /\ ~connSettled[s]

\* 'ma:connect': connectWithSettings(settings), an explicit reconnect
Reconnect(token) ==
  /\ Idle
  /\ ~Reconnecting
  /\ ~AbortPending
  /\ IF connectPromise.active
     THEN connectPromise.waiters < MaxWaiters
     ELSE nextSock <= MaxSockets
  /\ token # "" => nextId <= MaxRequests
  /\ CommitClient(connect(setCredentials(Start, "http://ma", token)))
  /\ CommitHost([HostStart EXCEPT
                   !.lastCall = [op |-> "reconnect", from |-> state]])

\* the session before the reconnect: attempts that fail or time out,
\* handshakes that are refused, sockets that break
SessionHistory ==
  /\ ~Reconnecting
  /\ \/ \E token \in SettingsTokens : ConnectWithSettings(token)
     \/ \E reason \in DisconnectReasons : Disconnect(reason)
     \/ \E s \in SockIds : SocketOpen(s)
     \/ \E s \in SockIds : SocketConnectError(s)
     \/ \E s \in SockIds : ConnectTimeout(s)
     \/ \E s \in SockIds, after \in {"OPEN", "CLOSING"} : SocketError(s, after)
     \/ \E s \in SockIds : SocketClose(s)
     \/ \E s \in SockIds, v \in SchemaVersions :
          SocketMessage(s, ServerInfoFrame(v))
     \/ \E s \in SockIds, id \in ReqIds :
          \/ SocketMessage(s, SuccessFrame(id, NonArray, FALSE))
          \/ SocketMessage(s, ErrorFrame(id, "details"))
     \/ \E id \in ReqIds : CommandTimeout(id)
     \/ Tick
     \/ RunMicrotask

\* the socket of the attempt opens
ServerOpens ==
  /\ Reconnecting
  /\ ws # NoSocket
  /\ SocketOpen(ws)

\* the server's greeting: its server-info frame, once per connection
ServerGreets ==
  /\ Reconnecting
  /\ ws # NoSocket
  /\ ~serverInfo.present
  /\ \E v \in SchemaVersions : SocketMessage(ws, ServerInfoFrame(v))

\* the server accepts the token: a success result for the auth command
ServerAccepts ==
  /\ Reconnecting
  /\ ws # NoSocket
  /\ \E id \in DOMAIN pending :
       SocketMessage(ws, SuccessFrame(id, NonArray, FALSE))

\* the event loop runs the queued continuations
Continuation == Reconnecting /\ RunMicrotask

\* events of the sockets the session has dropped
StaleSocket ==
  /\ Reconnecting
  /\ \E s \in SockIds \ {ws} : SocketConnectError(s) \/ SocketClose(s)

ReconnectNext ==
  \/ SessionHistory
  \/ \E token \in SettingsTokens : Reconnect(token)
  \/ ServerOpens
  \/ ServerGreets
  \/ ServerAccepts
  \/ Continuation
  \/ StaleSocket

ReconnectSpec ==
  /\ Init
  /\ [][ReconnectNext]_vars
  /\ WF_vars(ServerOpens)
  /\ WF_vars(ServerGreets)
  /\ WF_vars(ServerAccepts)
  /\ WF_vars(Continuation)

\* ------------------------------------------------- actions of the frames
\* frames with the marks of more than one shape, or of none: server info or
\* an event that also carries the message_id of a request, an event that is
\* also server info, an object with none of the three marks
HybridFrames ==
  {Frame(TRUE, info, AUTH_SCHEMA_VERSION - 1, event, hasId,
         IF hasId THEN 1 ELSE 0, hasErr, "", NonArray, FALSE) :
     info \in BOOLEAN, event \in BOOLEAN, hasId \in BOOLEAN,
     hasErr \in BOOLEAN}

\* the frames a server may send here: the hybrid ones, server info that
\* asks for a token, text that is not JSON, and for each request a partial
\* result, a final result and an error result
FrameInputs ==
  HybridFrames
  \cup {ServerInfoFrame(AUTH_SCHEMA_VERSION), MalformedFrame}
  \cup UNION {{SuccessFrame(id, NonArray, TRUE),
               SuccessFrame(id, NonArray, FALSE),
               ErrorFrame(id, "details")} : id \in ReqIds}

\* the listener of onEvent registered by start(): the event is noted (the
\* poll it may schedule is a later trigger of pollState)
frameHandled(H, f, atClient) ==
  [H EXCEPT !.lastCall = [op |-> "frame", frame |-> f,
                          handled |-> atClient,
                          delivered |-> atClient /\ eventDelivered(f)]]

\* 'message' on a socket whose handlers are attached, with the listener of
\* index.ts; the frame handed to handleMessage is recorded
SocketFrame(s, f) ==
  /\ Idle
  /\ attached[s]
  /\ sockState[s] = "OPEN" \/ (sockState[s] = "CLOSING" /\ ws # s)
  /\ f.hasId => f.message_id < nextId
  /\ (f.partial /\ f.result.isArray) =>
        Len(streamed[f.message_id]) + Len(f.result.items) <= MaxAcc
  /\ (ws = s /\ f.info /\ f.schema_version >= AUTH_SCHEMA_VERSION
        /\ authToken # "") => nextId <= MaxRequests
  /\ CommitClient(IF ws # s THEN Start
                  ELSE [handleMessage(serverStreams(Start, f), f)
                          EXCEPT !.lastFrame = f])
  /\ CommitHost(frameHandled(HostStart, f, ws = s))

FramesNext ==
  \/ \E token \in SettingsTokens : ConnectWithSettings(token)
  \/ \E reason \in DisconnectReasons : Disconnect(reason)
  \/ SendCommand("players/all")
  \/ \E s \in SockIds : SocketOpen(s)
  \/ \E s \in SockIds : \E f \in FrameInputs : SocketFrame(s, f)
  \/ RunMicrotask

FramesSpec == Init /\ [][FramesNext]_vars

\* ------------------------------------------ actions of the stale sockets
\* 'error' on a socket that is closing: a socket the session dropped, or the
\* active one after an earlier error
SocketErrorLate(s) ==
  /\ Idle
  /\ sockState[s] = "CLOSING"
  /\ attached[s]
  /\ Commit(onError(Start, s))

\* the frames of a server that answers: its server info, an event, and for
\* each request a final result and an error result
AnswerFrames ==
  {ServerInfoFrame(v) : v \in SchemaVersions}
  \cup {EventFrame}
  \cup UNION {{SuccessFrame(id, NonArray, FALSE),
               ErrorFrame(id, "details")} : id \in ReqIds}

\* sessions that follow one another: each connect() replaces the socket of
\* the session before, whose events arrive late
StaleNext ==
  \/ \E token \in SettingsTokens : ConnectWithSettings(token)
  \/ \E reason \in DisconnectReasons : Disconnect(reason)
  \/ SendCommand("players/all")
  \/ \E s \in SockIds : SocketOpen(s)
  \/ \E s \in SockIds : SocketConnectError(s)
  \/ \E s \in SockIds, after \in {"OPEN", "CLOSING"} : SocketError(s, after)
  \/ \E s \in SockIds : SocketErrorLate(s)
  \/ \E s \in SockIds : SocketClose(s)
  \/ \E s \in SockIds : \E f \in AnswerFrames : SocketMessage(s, f)
  \/ RunMicrotask

StaleSpec == Init /\ [][StaleNext]_vars

\* ------------------------------------------------- actions of the timers
\* the result frames of a server that streams: for each request a partial
\* result with one more element, a partial result that is no array, a final
\* result and an error result
StreamFrames(S) ==
  UNION {{SuccessFrame(id, Arr(Chunk(Len(S.streamed[id]), 1)), TRUE),
          SuccessFrame(id, NonArray, TRUE),
          SuccessFrame(id, NonArray, FALSE),
          ErrorFrame(id, "details")} : id \in ReqIds}

\* A session and its commands: a server that answers, streams partial
\* results or stays silent, a socket that reports an error and stays open
\* or closes, a user who disconnects.  Time passes, and a timer that is due
\* fires.
TimersNext ==
  \/ SessionOpen
  \/ \E reason \in DisconnectReasons : Disconnect(reason)
  \/ SendCommand("players/all")
  \/ \E s \in SockIds, after \in {"OPEN", "CLOSING"} : SocketError(s, after)
  \/ \E s \in SockIds : SocketClose(s)
  \/ \E s \in SockIds : \E f \in StreamFrames(Cur) : SocketMessage(s, f)
  \/ \E id \in ReqIds : CommandTimeout(id)
  \/ Tick

TimersSpec ==
  /\ Init
  /\ [][TimersNext]_vars
  /\ WF_vars(Tick)
  /\ \A id \in ReqIds : WF_vars(CommandTimeout(id))

\* ----------------------------------------------- actions of the attempts
\* Attempts to connect: the socket opens, fails, stays silent until the 8s
\* timer fires, or is torn down by the user while it is connecting; callers
\* join the attempt in flight.  Time passes, a timer that is due fires, and
\* the event loop runs the queued continuations.
AttemptsNext ==
  \/ \E token \in SettingsTokens : ConnectWithSettings(token)
  \/ \E reason \in DisconnectReasons : Disconnect(reason)
  \/ \E s \in SockIds : SocketOpen(s)
  \/ \E s \in SockIds : SocketConnectError(s)
  \/ \E s \in SockIds : ConnectTimeout(s)
  \/ \E s \in SockIds : SocketClose(s)
  \/ Tick
  \/ RunMicrotask

AttemptsSpec ==
  /\ Init
  /\ [][AttemptsNext]_vars
  /\ WF_vars(Tick)
  /\ \A s \in SockIds : WF_vars(ConnectTimeout(s))
  /\ WF_vars(RunMicrotask)

\* ------------------------------------------------- actions of the queues
\* the queues a server may report in a list: distinct queue ids
QueueIds == PlayerIds

QueueStates == {"", "playing"}

Queues(qid) ==
  {QueueWith(qid, pid, st) : pid \in {0} \cup PlayerIds, st \in QueueStates}

QueueCaches ==
  {<<>>}
  \cup UNION {{<<x>> : x \in Queues(qid)} : qid \in QueueIds}
  \cup UNION {{<<x, y>> : x \in Queues(ab[1]), y \in Queues(ab[2])} :
                ab \in {c \in QueueIds \X QueueIds : c[1] # c[2]}}

QueuePlayers ==
  {<<>>, <<PlainPlayer(1, 0)>>, <<PlainPlayer(2, 0), PlainPlayer(1, 0)>>}

\* the queues a server may answer 'get_active_queue' with
ActiveQueues ==
  {QueueWith(qid, pid, st) :
     qid \in {0, UnknownId} \cup QueueIds, pid \in {0} \cup PlayerIds,
     st \in {"", "idle"}}

\* a call of pollState() before any call of the handler
QueuesPoll ==
  /\ started < MaxFetches
  /\ calls = 0
  /\ PollTrigger

\* a later call of pollState(), after the handler has run to its end
QueuesPollAgain ==
  /\ calls > 0
  /\ setJob = NoJob
  /\ ~pollInFlight
  /\ started < MaxFetches + 1
  /\ PollTrigger

QueuesFetched ==
  /\ pollPc = "fetch"
  /\ isConnected(Cur)
  /\ \E players \in QueuePlayers, queues \in QueueCaches :
       CommitHost(pollFetched(HostStart, Cur, Arr(players), Arr(queues)))
  /\ UNCHANGED clientVars

\* 'ma:transferQueue' with a targetPlayerId (0: none in the payload)
TransferQueue(targetPlayerId) ==
  /\ calls < MaxCalls
  /\ pollPc = "idle"
  /\ CommitHost(transferQueue(HostStart, Cur, targetPlayerId))
  /\ UNCHANGED clientVars

ActiveQueueResolved(queue) ==
  /\ setJob.pc = "get_active_queue"
  /\ isConnected(Cur)
  /\ CommitHost(activeQueueResolved(HostStart, Cur, queue))
  /\ UNCHANGED clientVars

\* an error result or the timeout of 'player_queues/get_active_queue'
ActiveQueueFailed ==
  /\ setJob.pc = "get_active_queue"
  /\ CommitHost(handleSetFailed(HostStart, "ma:transferQueue"))
  /\ UNCHANGED clientVars

TransferResolved ==
  /\ setJob.pc = "transfer"
  /\ isConnected(Cur)
  /\ CommitHost(transferResolved(HostStart))
  /\ UNCHANGED clientVars

\* an error result or the timeout of 'player_queues/transfer'
TransferFailed ==
  /\ setJob.pc = "transfer"
  /\ CommitHost(handleSetFailed(HostStart, "ma:transferQueue"))
  /\ UNCHANGED clientVars

QueuesNext ==
  \/ SessionOpen
  \/ SessionAuthenticated
  \/ QueuesPoll
  \/ QueuesPollAgain
  \/ QueuesFetched
  \/ \E items \in PollItems : PollItemsFetched(items)
  \/ PollItemsFailed
  \/ \E targetPlayerId \in {NoPlayer, UnknownId} \cup PlayerIds :
       TransferQueue(targetPlayerId)
  \/ \E queue \in ActiveQueues : ActiveQueueResolved(queue)
  \/ ActiveQueueFailed
  \/ TransferResolved
  \/ TransferFailed

QueuesSpec == Init /\ [][QueuesNext]_vars

\* deltas in halves: +10, +2.5, -40, +60
Deltas == {20, 5, -80, 120}

\* scope and explicit player ids of a volume request
VolumeRequests ==
  {<<"selected", <<>>>>, <<"group", <<>>>>,
   <<"selected", <<UnknownId, 0, 1, UnknownId>>>>}

FreshVolumes == {<<>>, <<95>>}

PlayersNext ==
  \/ SessionOpen
  \/ SessionAuthenticated
  \/ PlayersPoll
  \/ PlayersFetched
  \/ \E playerId \in {NoPlayer, UnknownId} \cup PlayerIds :
       ResolveControllingPlayer(playerId)
  \/ \E r \in VolumeRequests : GetVolumeTargetPlayerIds(r[1], r[2])
  \/ \E delta \in Deltas, r \in VolumeRequests :
       AdjustVolume(delta, r[1], r[2])
  \/ \E i \in DOMAIN volumeJobs, fresh \in FreshVolumes :
       PlayerGetResolved(i, fresh)
  \/ \E i \in DOMAIN volumeJobs : PlayerGetFailed(i)
  \/ \E targetPlayerId \in {NoPlayer, UnknownId} \cup PlayerIds :
       GroupPlayer(targetPlayerId)
  \/ UngroupResolved
  \/ UngroupFailed
  \/ SetMembersResolved
  \/ SetMembersFailed

PlayersSpec == Init /\ [][PlayersNext]_vars

\* ================================================================= claims
Issued == 1..(nextId - 1)

SettleKinds == {"resolve", "error", "timeout", "teardown"}

\* C1: every accepted command is settled at most once, by a final result, an
\* error result, its timer or a teardown; it is settled exactly when it has
\* left the pending table, and no request is still pending on a socket that
\* has closed.
C1_ExactlyOneSettle ==
  \A id \in ReqIds :
    /\ Len(settled[id]) <= 1
    /\ \A i \in DOMAIN settled[id] : settled[id][i] \in SettleKinds
    /\ id \in Issued => ((id \in DOMAIN pending) <=> (settled[id] = <<>>))
    /\ id \notin Issued => (id \notin DOMAIN pending /\ settled[id] = <<>>)
    /\ id \in DOMAIN pending => sockState[pending[id].sock] # "CLOSED"

\* one request was rejected by its timer, another by the close of the socket
C1_Witness ==
  /\ \E id \in ReqIds : settled[id] = <<"timeout">>
  /\ \E i \in DOMAIN lastSettled :
       /\ lastSettled[i].kind = "teardown"
       /\ lastSettled[i].value = <<"Socket closed.">>
  /\ \E s \in SockIds : sockState[s] = "CLOSED"

\* C2 (as claimed): a request resolves with the streamed elements, in order,
\* followed by the final payload whenever elements were accumulated, and
\* with the final result alone otherwise; no accumulated element is dropped.
C2_ConcatNeverDrops ==
  \A i \in DOMAIN lastSettled :
    lastSettled[i].kind = "resolve" =>
      LET acc == streamed[lastSettled[i].id]
          fin == lastFrame.result
      IN IF acc # <<>>
         THEN lastSettled[i].value = Arr(acc \o fin.items)
         ELSE lastSettled[i].value = fin

\* C3: in every reachable state, handling a partial success frame for a
\* pending request leaves the entry in the table, unsettled, with its timer
\* as it was, and touches nothing but the accumulator; a request is only
\* resolved by a non-partial frame, and no timer is ever given more time.
C3_PartialNeverCompletes ==
  /\ [](\A id \in DOMAIN pending :
          \A f \in ResultFrames(id, Len(streamed[id])) :
            (classify(f) = "result" /\ ~f.hasErr /\ f.partial) =>
              LET S == handleMessage(Cur, f) IN
              /\ id \in DOMAIN S.pending
              /\ S.pending[id].timeout = pending[id].timeout
              /\ S.pending[id].partialResults =
                   IF f.result.isArray
                   THEN pending[id].partialResults \o f.result.items
                   ELSE pending[id].partialResults
              /\ [S EXCEPT !.pending = pending] = Cur)
  /\ [][\A id \in DOMAIN timers \cap DOMAIN timers' :
          timers'[id].remaining <= timers[id].remaining]_vars
  /\ [](\A i \in DOMAIN lastSettled :
          lastSettled[i].kind = "resolve" =>
            (lastFrame.hasId /\ ~lastFrame.hasErr /\ ~lastFrame.partial))

\* a pending entry that has taken MaxAcc streamed elements and whose timer
\* is due
C3_Witness ==
  \E id \in DOMAIN pending :
    /\ Len(pending[id].partialResults) = MaxAcc
    /\ id \in DOMAIN timers
    /\ timers[id].remaining = 0

\* C4: disconnect(reason) - called by the host, or by connect() before it
\* opens the new socket - rejects every pending request with the reason,
\* cancels every timer and leaves the table empty; a settled request is
\* never settled again.
TornDown(reason) ==
  /\ pending' = <<>>
  /\ timers' = <<>>
  /\ Len(lastSettled') = Cardinality(DOMAIN pending)
  /\ \A id \in DOMAIN pending :
       /\ settled'[id] = <<"teardown">>
       /\ \E i \in DOMAIN lastSettled' :
            lastSettled'[i] =
              [id |-> id, kind |-> "teardown", value |-> <<reason>>]

C4_DisconnectRejectsAll ==
  /\ [][\A r \in DisconnectReasons : Disconnect(r) => TornDown(r)]_vars
  /\ [][\A t \in SettingsTokens :
          (~connectPromise.active /\ ConnectWithSettings(t))
            => TornDown("Reconnecting...")]_vars
  /\ [][\A id \in ReqIds :
          settled[id] # <<>> => settled'[id] = settled[id]]_vars

\* the host's disconnect has just rejected two pending requests
C4_Witness ==
  /\ pending = <<>>
  /\ timers = <<>>
  /\ Len(lastSettled) = 2
  /\ \A i \in DOMAIN lastSettled :
       lastSettled[i].value = <<"Disconnected by user.">>

\* C5: when the 12s timer of a request fires, the entry is removed and the
\* request is rejected with the command-timeout error that names the
\* command; in every reachable state, handling a result frame for an id
\* that has no pending entry returns the state unchanged.
C5_TimeoutRejects ==
  /\ [](\A i \in DOMAIN lastSettled :
          lastSettled[i].kind = "timeout" =>
            LET id == lastSettled[i].id IN
            /\ lastSettled[i].value =
                 <<"Music Assistant command timeout: ", commandOf[id]>>
            /\ commandOf[id] # ""
            /\ id \notin DOMAIN pending
            /\ id \notin DOMAIN timers
            /\ settled[id] = <<"timeout">>)
  /\ [][\A id \in (DOMAIN timers') \ (DOMAIN timers) :
          timers'[id].remaining = COMMAND_TIMEOUT_MS]_vars
  /\ [](\A id \in Issued \ DOMAIN pending :
          \A f \in ResultFrames(id, Len(streamed[id])) :
            classify(f) = "result" => handleMessage(Cur, f) = Cur)

\* a request has just been rejected by its timer while its socket is still
\* open, so that a late result frame can still arrive
C5_Witness ==
  /\ \E i \in DOMAIN lastSettled : lastSettled[i].kind = "timeout"
  /\ ws # NoSocket
  /\ sockState[ws] = "OPEN"

\* C6: a sendCommand while there is no open active socket throws and stores
\* no entry, starts no timer, writes no frame; every frame is written on
\* the open active socket after its entry and timer were stored.
C6_SendCommandGuard ==
  /\ [][(SendCommand("players/all") /\ sendCommandThrows(Cur))
          => /\ threw'
             /\ pending' = pending
             /\ timers' = timers
             /\ written' = <<>>
             /\ nextId' = nextId]_vars
  /\ [](threw => (ws = NoSocket \/ sockState[ws] # "OPEN"))
  /\ [](\A i \in DOMAIN written :
          /\ written[i].stored
          /\ written[i].sock = ws
          /\ ws # NoSocket
          /\ sockState[ws] = "OPEN"
          /\ written[i].message_id \in DOMAIN pending
          /\ written[i].message_id \in DOMAIN timers)

\* sendCommand has just thrown although a socket exists: it is not open yet
C6_Witness ==
  /\ threw
  /\ ws # NoSocket
  /\ sockState[ws] = "CONNECTING"
  /\ pending = <<>>

\* C7: a connect() made while an attempt is in flight joins it: no socket
\* is opened, nothing is torn down, the attempt stays the same; a connect()
\* made otherwise tears down once and opens exactly one socket; when the
\* attempt settles every caller gets the same outcome.
C7_ConnectShared ==
  /\ [][\A t \in SettingsTokens : ConnectWithSettings(t) =>
          IF connectPromise.active
          THEN /\ connectPromise' = [connectPromise EXCEPT !.waiters = @ + 1]
               /\ UNCHANGED <<nextSock, teardowns, ws, sockState, pending,
                              state, connectTimer>>
          ELSE /\ connectPromise' =
                    [active |-> TRUE, sock |-> nextSock, waiters |-> 1]
               /\ nextSock' = nextSock + 1
               /\ teardowns' = teardowns + 1
               /\ ws' = nextSock]_vars
  /\ [][(connectPromise.active /\ connectPromise'.active)
          => UNCHANGED <<nextSock, teardowns>>]_vars
  /\ [][(connectPromise.active /\ ~connectPromise'.active)
          => /\ Len(connectOutcomes') = connectPromise.waiters
             /\ \A i, j \in DOMAIN connectOutcomes' :
                  connectOutcomes'[i] = connectOutcomes'[j]]_vars
  /\ [](teardowns = nextSock - 1)

\* two callers have just been handed the outcome of one attempt
C7_Witness ==
  /\ Len(connectOutcomes) = 2
  /\ nextSock = 2
  /\ ~connectPromise.active

\* C8: a server-info frame with a schema version below 28 makes the session
\* authenticated at once, with authRequired false, and sends no command,
\* with or without a token.
C8_OldSchemaNoAuth ==
  [][\A s \in SockIds : \A v \in SchemaVersions :
       (ws = s /\ v < AUTH_SCHEMA_VERSION /\ SocketMessage(s, ServerInfoFrame(v)))
       => /\ state' = "authenticated"
          /\ authenticated'
          /\ serverInfo' = Info(v)
          /\ lastSnapshot'.state = "authenticated"
          /\ lastSnapshot'.authenticated
          /\ ~lastSnapshot'.authRequired
          /\ written' = <<>>
          /\ microtasks' = <<>>
          /\ UNCHANGED <<pending, nextId, awaiters, authToken>>]_vars

\* an old-schema server was met with a token configured, and no command
\* has ever been sent
C8_Witness ==
  /\ serverInfo.present
  /\ serverInfo.schema_version < AUTH_SCHEMA_VERSION
  /\ authToken # ""
  /\ state = "authenticated"
  /\ authenticated
  /\ nextId = 1

\* C9: a server-info frame with schema version 28 or above while no token
\* is configured leaves the session connected and unauthenticated, reports
\* authRequired, and sends no command.
C9_NoTokenAuthRequired ==
  [][\A s \in SockIds : \A v \in SchemaVersions :
       (/\ ws = s /\ v >= AUTH_SCHEMA_VERSION /\ authToken = ""
        /\ SocketMessage(s, ServerInfoFrame(v)))
       => /\ state' = "connected"
          /\ ~authenticated'
          /\ serverInfo' = Info(v)
          /\ lastSnapshot'.state = "connected"
          /\ lastSnapshot'.authRequired
          /\ ~lastSnapshot'.authenticated
          /\ written' = <<>>
          /\ microtasks' = <<>>
          /\ UNCHANGED <<pending, nextId, awaiters, authToken>>]_vars

C9_Witness ==
  /\ serverInfo.present
  /\ serverInfo.schema_version >= AUTH_SCHEMA_VERSION
  /\ authToken = ""
  /\ state = "connected"
  /\ lastSnapshot.authRequired
  /\ nextId = 1

\* C10: a server-info frame with schema version 28 or above while a token
\* is configured moves the session to authenticating and writes one auth
\* command; however that command settles, its continuation runs next: a
\* success makes the session authenticated, a failure (error result,
\* timeout, teardown) puts it in error with authenticated false.
C10_TokenHandshake ==
  /\ [][\A s \in SockIds : \A v \in SchemaVersions :
          (/\ ws = s /\ v >= AUTH_SCHEMA_VERSION /\ authToken # ""
           /\ SocketMessage(s, ServerInfoFrame(v)))
          => /\ state' = "authenticating"
             /\ ~authenticated'
             /\ Len(written') = 1
             /\ written'[1].command = "auth"
             /\ written'[1].message_id = nextId
             /\ awaiters'[nextId] = [kind |-> "handshake", token |-> authToken]
             /\ nextId \in DOMAIN pending']_vars
  /\ [][\A id \in ReqIds :
          (awaiters[id].kind = "handshake" /\ settled'[id] # settled[id])
          => /\ microtasks' # <<>>
             /\ \E i \in DOMAIN microtasks' :
                  /\ microtasks'[i].kind = "handshake"
                  /\ microtasks'[i].by = settled'[id][1]
                  /\ microtasks'[i].ok = (settled'[id][1] = "resolve")]_vars
  /\ [][(microtasks # <<>> /\ Head(microtasks).kind = "handshake")
          => IF Head(microtasks).by = "resolve"
             THEN state' = "authenticated" /\ authenticated'
                  /\ lastSnapshot'.authenticated
             ELSE state' = "error" /\ ~authenticated'
                  /\ ~lastSnapshot'.authenticated]_vars

\* the handshake's auth command was rejected by a teardown and the session
\* is in error
C10_Witness ==
  /\ state = "error"
  /\ ~authenticated
  /\ message = <<"Authentication failed: ", "Disconnected by user.">>

\* C11 (as claimed): when the 8s connection timer fires before the socket
\* opened, the attempt is rejected for its callers and, once it has settled,
\* the session is in state error.
ConnectTimedOut ==
  /\ microtasks # <<>>
  /\ Head(microtasks).kind = "connect"
  /\ ~Head(microtasks).ok
  /\ Head(microtasks).err = <<"WebSocket connection timed out.">>

C11_TimeoutEndsInError ==
  [][ConnectTimedOut =>
       /\ connectOutcomes' # <<>>
       /\ \A i \in DOMAIN connectOutcomes' : connectOutcomes'[i] = "rejected"
       /\ ~connectPromise'.active
       /\ state' = "error"]_vars

\* C12: right after disconnect(reason) returns - called by the host, or by
\* the catch block of a failed connect - there is no active socket, the
\* pending table is empty, serverInfo is null, authenticated is false, the
\* state is disconnected and the message is the reason; the snapshot
\* broadcast says the same.
Disconnected(reason) ==
  /\ ws' = NoSocket
  /\ pending' = <<>>
  /\ timers' = <<>>
  /\ serverInfo' = NullInfo
  /\ ~authenticated'
  /\ state' = "disconnected"
  /\ message' = <<reason>>
  /\ lastSnapshot' = [state |-> "disconnected", message |-> <<reason>>,
                      connected |-> FALSE, authenticated |-> FALSE,
                      authRequired |-> FALSE, serverInfo |-> NullInfo]
  /\ ws # NoSocket => sockState'[ws] \notin {"CONNECTING", "OPEN"}

C12_DisconnectPostcondition ==
  /\ [][\A r \in DisconnectReasons : Disconnect(r) => Disconnected(r)]_vars
  /\ [][(microtasks # <<>> /\ Head(microtasks).kind = "connect"
           /\ ~Head(microtasks).ok)
          => Disconnected("Disconnected after connection error.")]_vars

\* the host disconnected an authenticated session that had a request pending
C12_Witness ==
  /\ state = "disconnected"
  /\ message = <<"Disconnected by user.">>
  /\ ws = NoSocket
  /\ lastSettled # <<>>
  /\ \E s \in SockIds : sockState[s] = "CLOSING" /\ attached[s]

\* C13 (as claimed): the close of the active socket rejects every pending
\* request, drops the socket reference, clears serverInfo and the
\* authenticated flag, so that authRequired is false, and leaves the state
\* disconnected.
C13_CloseCleansUp ==
  [][\A s \in SockIds : (ws = s /\ SocketClose(s)) =>
       /\ pending' = <<>>
       /\ ws' = NoSocket
       /\ ~authenticated'
       /\ state' = "disconnected"
       /\ serverInfo' = NullInfo
       /\ ~lastSnapshot'.authRequired]_vars

SessionUp == isConnected(Cur) /\ isAuthenticated(Cur)

PollCommands ==
  <<Command("players/all", NoPlayer, <<>>),
    Command("player_queues/all", NoPlayer, <<>>)>>

\* C15: a trigger that arrives while a cycle is in flight only marks "poll
\* again" and starts nothing; when the cycle finishes with the session still
\* connected and authenticated, exactly one trailing cycle starts if one or
\* more triggers arrived and none otherwise; at most one cycle is in flight.
C15_PollCoalescing ==
  /\ [][(pollInFlight /\ PollTrigger) =>
          /\ pollAgain'
          /\ missed' = missed + 1
          /\ sent' = <<>>
          /\ UNCHANGED <<pollInFlight, pollPc, started, completed,
                         playersCache, queuesCache, queueItemsCache,
                         selectedPlayerId>>]_vars
  /\ [][(completed' # completed /\ SessionUp') =>
          /\ completed' = completed + 1
          /\ lastCall' = [op |-> "pollFinally", missed |-> missed]
          /\ ~pollAgain'
          /\ missed' = 0
          /\ IF missed >= 1
             THEN /\ started' = started + 1
                  /\ pollInFlight'
                  /\ pollPc' = "fetch"
                  /\ sent' = PollCommands
             ELSE /\ started' = started
                  /\ ~pollInFlight'
                  /\ pollPc' = "idle"
                  /\ sent' = <<>>]_vars
  /\ [](/\ pollAgain <=> missed >= 1
        /\ pollAgain => pollInFlight
        /\ pollInFlight <=> pollPc # "idle"
        /\ started = completed + (IF pollInFlight THEN 1 ELSE 0))

\* two triggers arrived during the first cycle, and its end started the one
\* trailing cycle
C15_Witness ==
  /\ lastCall = [op |-> "pollFinally", missed |-> MaxTriggers]
  /\ MaxTriggers >= 2
  /\ completed = 1
  /\ started = 2
  /\ pollInFlight
  /\ ~pollAgain
  /\ sent = PollCommands

\* C16: a call of pollState() while the client is not connected or not
\* authenticated sends no command, leaves the caches, the selection and the
\* in-flight guard as they were and starts no cycle; it emits nothing but a
\* status refresh, and emits exactly one when no cycle is in flight.
C16_PollSkipped ==
  [][(PollTrigger /\ ~SessionUp) =>
       /\ sent' = <<>>
       /\ UNCHANGED <<playersCache, queuesCache, queueItemsCache,
                      selectedPlayerId, pollInFlight, pollPc, started,
                      completed, clientVars>>
       /\ \A i \in DOMAIN emitted' : emitted'[i] = "maStatus"
       /\ ~pollInFlight => emitted' = <<"maStatus">>]_vars

\* a poll was skipped on a connected, unauthenticated session that has a
\* players cache from an earlier session
C16_Witness ==
  /\ isConnected(Cur)
  /\ ~isAuthenticated(Cur)
  /\ emitted = <<"maStatus">>
  /\ sent = <<>>
  /\ ~pollInFlight
  /\ playersCache # <<>>
  /\ selectedPlayerId # NoPlayer

\* C17: when the two commands of a cycle resolve, the selection becomes the
\* previous selection if the fetched list has it, else the default of the
\* settings if the list has it, else the first player of the list, else
\* none; it is none exactly when the list is empty and otherwise names a
\* cached player.
C17_SelectionRule ==
  [][\A players \in {Arr(l) : l \in PollPlayers} \cup {NonArray} :
       \A queues \in {Arr(l) : l \in PollQueues} \cup {NonArray} :
         LET list == IF players.isArray THEN players.items ELSE <<>>
             Has(id) == id # NoPlayer
                        /\ \E i \in DOMAIN list : list[i].player_id = id
         IN (pollPc = "fetch" /\ playersCache' = list
               /\ PollFetched(players, queues)) =>
              /\ playersCache' = list
              /\ selectedPlayerId' =
                   IF Has(selectedPlayerId) THEN selectedPlayerId
                   ELSE IF Has(pollDefault) THEN pollDefault
                   ELSE IF list # <<>> THEN list[1].player_id
                   ELSE NoPlayer
              /\ (selectedPlayerId' = NoPlayer) <=> (list = <<>>)
              /\ selectedPlayerId' # NoPlayer => Has(selectedPlayerId')]_vars

\* a cycle fell back to the first player of the list: the previous
\* selection and the default are both gone from it
C17_Witness ==
  /\ completed >= 2
  /\ Len(playersCache) = 1
  /\ selectedPlayerId = playersCache[1].player_id
  /\ defaultPlayerId # NoPlayer
  /\ defaultPlayerId # selectedPlayerId
  /\ "maState" \in {emitted[i] : i \in DOMAIN emitted}
  /\ lastCall = [op |-> "pollFinally", missed |-> 0]

\* whether the cache has a player with this id
Cached(id) ==
  id # NoPlayer /\ \E i \in DOMAIN playersCache : playersCache[i].player_id = id

\* the ids reached from a cached start by following parent links
ReachableFrom(start) ==
  LET Step(S) ==
        S \cup {parentId(playersCache[i]) :
                  i \in {j \in DOMAIN playersCache :
                           /\ playersCache[j].player_id \in S
                           /\ Cached(parentId(playersCache[j]))}}
      F[n \in 0..Len(playersCache)] ==
        IF n = 0 THEN {start} ELSE Step(F[n - 1])
  IN F[Len(playersCache)]

\* a and b are cached and synced to each other
TwoCycle(a, b) ==
  /\ a # b
  /\ Cached(a) /\ findPlayerIn(playersCache, a).synced_to = b
  /\ Cached(b) /\ findPlayerIn(playersCache, b).synced_to = a

\* C18: resolveControllingPlayer returns for every cache and start id after
\* at most as many moves to a parent as there are cached players; it returns
\* none when the start is not cached and otherwise a cached player reachable
\* from the start; on a 2-cycle of synced_to links it returns one of the two.
C18_ResolveTerminates ==
  lastCall.op = "resolveControllingPlayer" =>
    /\ lastCall.hops <= Len(playersCache)
    /\ ~Cached(lastCall.playerId) => lastCall.player = NullPlayer
    /\ Cached(lastCall.playerId) =>
         /\ \E i \in DOMAIN playersCache : playersCache[i] = lastCall.player
         /\ lastCall.player.player_id \in ReachableFrom(lastCall.playerId)
    /\ \A a \in PlayerIds, b \in PlayerIds :
         (TwoCycle(a, b) /\ lastCall.playerId \in {a, b}) =>
           lastCall.player.player_id \in {a, b}

\* the resolution went round a 2-cycle and stopped on the player it started
\* from
C18_Witness ==
  /\ lastCall.op = "resolveControllingPlayer"
  /\ \E a \in PlayerIds, b \in PlayerIds :
       /\ TwoCycle(a, b)
       /\ lastCall.playerId = a
       /\ lastCall.player.player_id = a
  /\ lastCall.hops = 2

\* the selected player, its controlling player, and their group members as
\* getVolumeTargetPlayerIds reads them
SelectedPlayer == findPlayerIn(playersCache, selectedPlayerId)

ControllingPlayer == resolveControllingPlayer(HostCur, selectedPlayerId)

ControllerMembers == normalizePlayerIdList(ControllingPlayer.group_members)

SelectedMembers == normalizePlayerIdList(SelectedPlayer.group_members)

Ids(seq) == {seq[i] : i \in DOMAIN seq}

\* a call of getVolumeTargetPlayerIds with no explicit ids that returned
TargetsResolved ==
  /\ lastCall.op = "getVolumeTargetPlayerIds"
  /\ lastCall.explicit = <<>>
  /\ ~lastCall.targets.threw

\* C19 as stated: with scope group the targets are the controller's group
\* members whenever it has any, else the selected player's, else the
\* selected player; with scope selected the selected player.
C19_ControllerMembersWhenAny ==
  TargetsResolved =>
    Ids(lastCall.targets.ids) =
      IF lastCall.scope = "selected" THEN {selectedPlayerId}
      ELSE IF ControllerMembers # <<>> THEN Ids(ControllerMembers)
      ELSE IF SelectedMembers # <<>> THEN Ids(SelectedMembers)
      ELSE {selectedPlayerId}

\* C19: with no explicit ids the call throws exactly when the selected
\* player is not cached; with scope group the targets are the controller's
\* group members when it has more than one, else the selected player's own
\* group members when it has any, else the selected player alone, each id
\* once; with scope selected the only target is the selected player.
C19_VolumeTargets ==
  /\ (lastCall.op = "getVolumeTargetPlayerIds" /\ lastCall.explicit = <<>>) =>
       (lastCall.targets.threw <=> ~Cached(selectedPlayerId))
  /\ TargetsResolved =>
       /\ lastCall.targets.ids =
            IF lastCall.scope = "selected" THEN <<selectedPlayerId>>
            ELSE IF Len(ControllerMembers) > 1 THEN Unique(ControllerMembers)
            ELSE IF Len(SelectedMembers) > 0 THEN Unique(SelectedMembers)
            ELSE <<selectedPlayerId>>
       /\ \A i \in DOMAIN lastCall.targets.ids :
            \A j \in DOMAIN lastCall.targets.ids :
              lastCall.targets.ids[i] = lastCall.targets.ids[j] => i = j

\* scope group, the selected player is synced to a controller with a single
\* group member, and the targets are the selected player's own members
C19_Witness ==
  /\ TargetsResolved
  /\ lastCall.scope = "group"
  /\ ControllingPlayer.player_id # selectedPlayerId
  /\ Len(ControllerMembers) = 1
  /\ Len(SelectedMembers) > 1
  /\ Ids(lastCall.targets.ids) = Ids(SelectedMembers)
  /\ Ids(lastCall.targets.ids) # Ids(ControllerMembers)

\* the commands of the last step with this name and target
SentTo(command, id) ==
  {i \in DOMAIN sent : sent[i].command = command /\ sent[i].player_id = id}

\* a call of adjustVolume that resolved its targets on an open socket
Adjusted ==
  /\ lastCall.op = "adjustVolume"
  /\ ~lastCall.targets.threw
  /\ lastCall.open

\* C20 as stated: one volume_set per target, carrying the cached volume
\* plus delta, clamped to 0..100 (levels and delta compared in halves).
C20_CachedPlusDelta ==
  Adjusted =>
    \A id \in Ids(lastCall.targets.ids) :
      cachedVolume(HostCur, id) # <<>> =>
        \A i \in SentTo("players/cmd/volume_set", id) :
          2 * sent[i].volume_level[1] =
            LET sum == 2 * cachedVolume(HostCur, id)[1] + lastCall.delta
            IN IF sum < 0 THEN 0 ELSE IF sum > 200 THEN 200 ELSE sum

\* C20: on an open socket adjustVolume sends, for each target with a cached
\* volume, exactly one volume_set carrying the cached volume plus the delta
\* rounded to the nearest integer, clamped to 0..100; for a target without
\* one it sends 'players/get' and the volume_set follows the answer; it sends
\* nothing to other players, and nothing at all when it throws; no
\* volume_set ever carries a level outside 0..100.
C20_AdjustVolume ==
  /\ \A i \in DOMAIN sent :
       sent[i].command = "players/cmd/volume_set" =>
         sent[i].volume_level[1] \in 0..100
  /\ Adjusted =>
       /\ \A id \in Ids(lastCall.targets.ids) :
            LET rounded == CHOOSE r \in -100..100 :
                             lastCall.delta \in {2 * r - 1, 2 * r}
                sum == cachedVolume(HostCur, id)[1] + rounded
                level == IF sum < 0 THEN 0 ELSE IF sum > 100 THEN 100 ELSE sum
            IN IF cachedVolume(HostCur, id) # <<>>
               THEN /\ Cardinality(SentTo("players/cmd/volume_set", id)) = 1
                    /\ \A i \in SentTo("players/cmd/volume_set", id) :
                         sent[i].volume_level = <<level>>
                    /\ SentTo("players/get", id) = {}
               ELSE /\ SentTo("players/cmd/volume_set", id) = {}
                    /\ Cardinality(SentTo("players/get", id)) = 1
                    /\ \E j \in DOMAIN volumeJobs :
                         /\ volumeJobs[j].player_id = id
                         /\ volumeJobs[j].pc = "get"
                         /\ volumeJobs[j].volumeDelta = rounded
       /\ \A i \in DOMAIN sent :
            sent[i].player_id \in Ids(lastCall.targets.ids)
  /\ (lastCall.op = "adjustVolume" /\ ~Adjusted) => sent = <<>>

\* p1 at 30 and p2 at 50, p2 synced to p1, delta +10 with scope group: 40
\* for p1 and 60 for p2
C20_Witness ==
  /\ Adjusted
  /\ lastCall.scope = "group"
  /\ lastCall.delta = 20
  /\ selectedPlayerId = 2
  /\ ControllingPlayer.player_id = 1
  /\ cachedVolume(HostCur, 1) = <<30>>
  /\ cachedVolume(HostCur, 2) = <<50>>
  /\ sent = <<Command("players/cmd/volume_set", 1, <<40>>),
              Command("players/cmd/volume_set", 2, <<60>>)>>

\* the number of events of one name emitted by the last step
Emitted(seq, name) == Cardinality({i \in DOMAIN seq : seq[i] = name})

\* C28 (as stated): at most one poll cycle runs at a time: the guard is set
\* exactly while a cycle is between its start and its end, it is released
\* when the cycle ends, and the poll commands that are not answered yet all
\* belong to one cycle, so no cycle issues players/all or player_queues/all
\* while the commands of another cycle are outstanding.
C28_OnePollAtATime ==
  /\ pollInFlight <=> pollPc # "idle"
  /\ started = completed + (IF pollInFlight THEN 1 ELSE 0)
  /\ \A i, j \in DOMAIN outstanding : outstanding[i] = outstanding[j]

\* C29: when players/all or player_queues/all fails, the cycle emits one
\* error event, named ma:poll, followed by a status refresh; the players
\* cache, the queues cache, the selected id and the queue-items cache stay
\* as they were; the guard is released, and the next poll (the trailing one
\* or the next trigger on a live session) starts a full cycle.
C29_FetchFailure ==
  [][/\ pollOutcome' = "failed" =>
          /\ errorRequests' = <<"ma:poll">>
          /\ Emitted(emitted', "maError") = 1
          /\ \E i \in DOMAIN emitted' :
               /\ emitted'[i] = "maError"
               /\ i < Len(emitted') /\ emitted'[i + 1] = "maStatus"
          /\ UNCHANGED <<playersCache, queuesCache, selectedPlayerId,
                         queueItemsCache>>
          /\ completed' = completed + 1
          /\ pollInFlight' => (started' = started + 1 /\ sent' = PollCommands)
     /\ (pollOutcome = "failed" /\ ~pollInFlight /\ SessionUp /\ PollTrigger) =>
          (pollInFlight' /\ pollPc' = "fetch" /\ sent' = PollCommands)
    ]_vars

\* a cycle failed at the first two commands and the caches are still filled
C29_Witness ==
  /\ pollOutcome = "failed"
  /\ errorRequests = <<"ma:poll">>
  /\ playersCache # <<>>
  /\ queueItemsCache # <<>>
  /\ selectedPlayerId # NoPlayer

\* C30: when player_queues/items fails the cycle does not fail: the
\* queue-items cache becomes empty, the players, queues and selection of
\* this cycle stay applied, the players and state events and the status are
\* emitted, no error event is emitted, and the cycle ends.
C30_ItemsFailure ==
  [][pollOutcome' = "items-failed" =>
       /\ pollPc = "items"
       /\ queueItemsCache' = <<>>
       /\ UNCHANGED <<playersCache, queuesCache, selectedPlayerId>>
       /\ errorRequests' = <<>>
       /\ Emitted(emitted', "maError") = 0
       /\ \E i \in DOMAIN emitted' :
            /\ i + 2 <= Len(emitted')
            /\ SubSeq(emitted', i, i + 2) = <<"maPlayers", "maState", "maStatus">>
       /\ completed' = completed + 1
    ]_vars

\* the items command of a cycle with players and queues failed
C30_Witness ==
  /\ pollOutcome = "items-failed"
  /\ playersCache # <<>>
  /\ queuesCache # <<>>
  /\ queueItemsCache = <<>>
  /\ "maPlayers" \in {emitted[i] : i \in DOMAIN emitted}

\* the parent of a cached player: synced_to, else active_group, else 0
ParentOf(playerId) ==
  LET p == findPlayerIn(playersCache, playerId)
  IN IF p.synced_to # 0 THEN p.synced_to ELSE p.active_group

SetMembersSent(seq) ==
  \E i \in DOMAIN seq : seq[i].command = "players/cmd/set_members"

UngroupSent(seq) ==
  \E i \in DOMAIN seq : seq[i].command = "players/cmd/ungroup"

\* C21: joining a target to a leader: when the target has a parent
\* (synced_to, else active_group) that is not the leader, the handler sends
\* ungroup for the target and nothing else, and set_members (leader, add
\* target) is sent only once the ungroup has succeeded; when the ungroup
\* fails no set_members is sent, the selection stays and the error is
\* reported; when the target has no parent or is already under the leader,
\* set_members is sent at once and no ungroup.
C21_GroupPlayer ==
  [][/\ (/\ lastCall'.op = "groupPlayer"
          /\ ~lastCall'.leader.threw
          /\ lastCall'.open
          /\ lastCall'.targetPlayerId \notin {NoPlayer, lastCall'.leader.id}) =>
          LET leader == lastCall'.leader.id
              target == lastCall'.targetPlayerId
          IN IF ParentOf(target) # 0 /\ ParentOf(target) # leader
             THEN /\ sent' = <<Command("players/cmd/ungroup", target, <<>>)>>
                  /\ setJob' = [pc |-> "ungroup", playerId |-> leader,
                                targetPlayerId |-> target]
                  /\ UNCHANGED selectedPlayerId
             ELSE /\ sent' = <<MembersCommand(leader, <<target>>)>>
                  /\ setJob'.pc = "set_members"
     /\ setJob.pc = "ungroup" =>
          /\ SetMembersSent(sent') =>
               /\ UngroupResolved
               /\ sent' = <<MembersCommand(setJob.playerId,
                                           <<setJob.targetPlayerId>>)>>
          /\ UngroupFailed =>
               /\ sent' = <<>> /\ setJob' = NoJob
               /\ UNCHANGED selectedPlayerId
               /\ errorRequests' = <<"ma:groupPlayer">>
     /\ (SetMembersSent(sent') /\ setJob.pc # "ungroup") =>
          (lastCall'.op = "groupPlayer" /\ ~UngroupSent(sent'))
     /\ selectedPlayerId' # selectedPlayerId =>
          (setJob.pc = "set_members" \/ pollPc = "fetch")
    ]_vars

\* the target left its other group and the set_members for the leader went
\* out
C21_Witness ==
  /\ lastCall.op = "ungroupResolved"
  /\ setJob.pc = "set_members"
  /\ ParentOf(setJob.targetPlayerId) \notin {0, setJob.playerId}
  /\ sent = <<MembersCommand(setJob.playerId, <<setJob.targetPlayerId>>)>>

\* the indices of the queues of a list that carry a queue id
WithQueueId(seq, qid) == {i \in DOMAIN seq : seq[i].queue_id = qid}

\* C22 (as stated): upsertQueue never duplicates: for a cache with one entry
\* per queue id and an update whose queue_id is the queue_id of a cached
\* queue, the cache has the same number of entries afterwards, exactly one
\* entry carries that queue_id, and that entry holds the old entry's fields
\* overridden by the fields of the update.
C22_UpsertNeverDuplicates ==
  (/\ lastCall.op = "upsertQueue"
   /\ \A i, j \in DOMAIN lastCall.before :
        lastCall.before[i].queue_id = lastCall.before[j].queue_id => i = j
   /\ WithQueueId(lastCall.before, lastCall.queue.queue_id) # {}) =>
    LET before == lastCall.before
        queue == lastCall.queue
    IN /\ Len(queuesCache) = Len(before)
       /\ Cardinality(WithQueueId(queuesCache, queue.queue_id)) = 1
       /\ \A i \in WithQueueId(before, queue.queue_id) :
            queuesCache[i] = spreadQueue(before[i], queue)

\* the request whose handling failed in the last step, "" if none did: a
\* handler of handleSet that threw before or after one of its commands
FailedRequest ==
  IF lastCall.op \in {"ungroupFailed", "setMembersFailed"}
  THEN "ma:groupPlayer"
  ELSE IF /\ lastCall.op = "groupPlayer"
          /\ \/ lastCall.leader.threw
             \/ lastCall.targetPlayerId \in {NoPlayer, lastCall.leader.id}
             \/ ~lastCall.open
  THEN "ma:groupPlayer"
  ELSE IF /\ lastCall.op = "adjustVolume"
          /\ (lastCall.targets.threw \/ ~lastCall.open)
  THEN "ma:adjustVolume"
  ELSE ""

\* C23 (as stated): every failure of a handled request is surfaced as one
\* error event that carries the name of the request, together with a status
\* refresh.
C23_FailureReported ==
  FailedRequest # "" =>
    /\ errorRequests = <<FailedRequest>>
    /\ Emitted(emitted, "maError") = 1
    /\ Emitted(emitted, "maStatus") >= 1

\* the transitions of the session state the claim allows; a run of connect()
\* tears the old session down (state disconnected) before it sets connecting
AllowedTransition(from, to, viaDisconnected) ==
  \/ to \in {"error", "disconnected"}
  \/ to = "connecting" /\ (from = "disconnected" \/ viaDisconnected)
  \/ to = "connected" /\ from = "connecting"
  \/ to = "authenticating" /\ from = "connected"
  \/ to = "authenticated" /\ from = "authenticating"
  \/ /\ to = "authenticated" /\ from = "connected"
     /\ serverInfo'.present
     /\ serverInfo'.schema_version < AUTH_SCHEMA_VERSION

\* C25 (as stated): the session state moves only along the transition
\* graph: connecting only from disconnected, connected only from connecting,
\* authenticating only from connected, authenticated only from
\* authenticating or, for a schema below 28, from connected; error and
\* disconnected from any state.
C25_TransitionGraph ==
  [][state' # state =>
       AllowedTransition(state, state', teardowns' = teardowns + 1)]_vars

\* C26 (as stated): the server info of a connection does not change once it
\* was received, whatever frames arrive on that connection.
C26_ServerInfoImmutable ==
  [][(ws # NoSocket /\ ws' = ws /\ serverInfo.present) =>
       serverInfo' = serverInfo]_vars

\* the client's state is what it was before the step: the handler changed
\* nothing but the record of what the step did
ClientUntouched ==
  <<ws, baseUrl, authToken, state, message, authenticated, serverInfo,
    pending, connectPromise, sockState, attached, connSettled, connectTimer,
    timers, microtasks, nextId, nextSock, awaiters, settled, lastSnapshot,
    teardowns>>' =
  <<ws, baseUrl, authToken, state, message, authenticated, serverInfo,
    pending, connectPromise, sockState, attached, connSettled, connectTimer,
    timers, microtasks, nextId, nextSock, awaiters, settled, lastSnapshot,
    teardowns>>

\* C27: every frame handed to handleMessage is treated as exactly one of
\* server info, event, result, tested in that order: a frame with the marks
\* of server info is handled as server info only (no event is delivered, no
\* request settled or fed); a frame with a string event and no server info
\* is delivered as an event only and settles no request even when it carries
\* the message_id of a pending one; a frame with only a message_id goes to
\* the result handler and is not delivered as an event; a malformed frame and
\* a frame with none of the marks change nothing.
C27_FrameClassification ==
  [][(/\ lastFrame' # NoFrame
      /\ lastCall'.op = "frame" /\ lastCall'.handled
      /\ lastCall'.frame = lastFrame') =>
       LET f == lastCall'.frame IN
       /\ (~f.json \/ (~f.info /\ ~f.event /\ ~f.hasId)) =>
            (ClientUntouched /\ ~lastCall'.delivered /\ lastSettled' = <<>>)
       /\ (f.json /\ f.info) =>
            /\ serverInfo' = Info(f.schema_version)
            /\ ~lastCall'.delivered
            /\ lastSettled' = <<>>
            /\ \A id \in DOMAIN pending :
                 id \in DOMAIN pending' /\ pending'[id] = pending[id]
       /\ (f.json /\ ~f.info /\ f.event) =>
            (ClientUntouched /\ lastCall'.delivered /\ lastSettled' = <<>>)
       /\ (f.json /\ ~f.info /\ ~f.event /\ f.hasId) =>
            /\ ~lastCall'.delivered
            /\ serverInfo' = serverInfo /\ state' = state
            /\ (f.message_id \in DOMAIN pending /\ ~f.partial) =>
                 (Len(lastSettled') = 1 /\ lastSettled'[1].id = f.message_id
                  /\ f.message_id \notin DOMAIN pending')
            /\ f.message_id \notin DOMAIN pending => ClientUntouched
    ]_vars

\* an event frame that carries the message_id of a pending request was
\* delivered as an event and the request is still pending
C27_Witness ==
  /\ lastCall.op = "frame" /\ lastCall.handled
  /\ lastCall.frame.event /\ ~lastCall.frame.info /\ lastCall.frame.hasId
  /\ lastCall.frame.message_id \in DOMAIN pending
  /\ lastCall.delivered
  /\ lastSettled = <<>>

\* a cycle of pollState() got the answers of its two commands in this step
PollAnswered == pollPc = "fetch" /\ pollPc' # "fetch" /\ pollOutcome' # "failed"

\* C31 (as stated): the queues cache is merged by id, not replaced: a queue
\* that upsertQueue wrote outside the poll cycle is still in the cache after
\* the next cycle got its answers, also when the polled list lacks it.
C31_UpsertSurvivesPoll ==
  [][PollAnswered =>
       \A qid \in upserted : WithQueueId(queuesCache', qid) # {}]_vars

\* disconnect(reason) has returned and left the session as it set it
DisconnectReturned ==
  /\ state = "disconnected"
  /\ ws = NoSocket
  /\ message \in {<<r>> : r \in DisconnectReasons}

\* the continuation at the head of the queue belongs to a command that a
\* teardown rejected
TeardownContinuation ==
  /\ microtasks # <<>>
  /\ Head(microtasks).kind \in {"handshake", "login"}
  /\ Head(microtasks).by = "teardown"

\* C32 (as stated): once disconnect(reason) has returned the session stays
\* disconnected and not authenticated until connect() is called again, and
\* the continuation of a command that a teardown rejected - the auth command
\* of the old connection in particular - changes neither the state nor the
\* message of the session, so that it never overwrites the status of a new
\* attempt.
C32_TeardownIsFinal ==
  /\ [][(DisconnectReturned /\ nextSock' = nextSock) =>
          (state' = "disconnected" /\ ~authenticated')]_vars
  /\ [][TeardownContinuation => (state' = state /\ message' = message)]_vars

\* the auth command of authenticateWithToken has settled and the code that
\* awaits it runs next
AuthSettled ==
  /\ microtasks # <<>>
  /\ Head(microtasks).kind \in {"handshake", "login"}
  /\ Head(microtasks).by \in SettleKinds

\* C33 (as stated): once the auth command of authenticateWithToken has
\* settled the session is not left in authenticating, whoever the caller
\* is: success ends in authenticated with the token stored, failure (error
\* result, timeout, teardown) ends in another state than authenticating
\* with the stored token unchanged.
C33_AuthSettles ==
  [][AuthSettled =>
       IF Head(microtasks).ok
       THEN /\ state' = "authenticated" /\ authenticated'
            /\ authToken' = Head(microtasks).token
       ELSE /\ state' # "authenticating"
            /\ authToken' = authToken]_vars

\* an event of socket s is delivered in this step to the handlers that
\* connect() attached to it
SocketEvent(s) ==
  \/ SocketClose(s)
  \/ SocketErrorLate(s)
  \/ \E f \in AnswerFrames : SocketMessage(s, f)

\* the attempt on a socket that the session dropped while it was connecting
\* has failed, and its catch block runs next
DroppedAttemptFailed ==
  /\ microtasks # <<>>
  /\ Head(microtasks).kind = "connect"
  /\ ~Head(microtasks).ok
  /\ Head(microtasks).sock # NoSocket
  /\ ws # Head(microtasks).sock

\* C34: the events of a socket that is not the active one any more are
\* inert: a message, a close or an error of a socket that connect() replaced
\* or disconnect() dropped leaves the session state, serverInfo, the
\* authenticated flag and the pending table as they are and settles no
\* request; the requests sent on the new connection stay pending.  The
\* failure of an attempt whose socket was dropped while connecting leaves
\* the same four as they are.
C34_StaleEventsInert ==
  /\ [][DroppedAttemptFailed =>
          /\ state' = state
          /\ serverInfo' = serverInfo
          /\ authenticated' = authenticated
          /\ pending' = pending]_vars
  /\ [][\A s \in SockIds :
          (attached[s] /\ ws # s /\ SocketEvent(s)) =>
            /\ state' = state /\ message' = message
            /\ serverInfo' = serverInfo
            /\ authenticated' = authenticated
            /\ pending' = pending /\ timers' = timers
            /\ ws' = ws
            /\ lastSettled' = <<>>
            /\ lastSnapshot' = lastSnapshot]_vars

\* the old socket has closed after a request was sent on the new
\* connection, and the request is still pending
C34_Witness ==
  \E s \in SockIds :
    /\ s # ws /\ attached[s] /\ sockState[s] = "CLOSED"
    /\ ws # NoSocket /\ sockState[ws] = "OPEN"
    /\ \E id \in DOMAIN pending : pending[id].sock = ws
    /\ state = "authenticated"

\* C35: the pending table is empty whenever there is no active socket;
\* every pending request was sent on the active socket; the table is empty
\* in the step in which the active socket changes; and a result frame
\* settles only a request that was sent on the connection the frame came in
\* on.
C35_PendingNeedsSocket ==
  /\ [](ws = NoSocket => pending = <<>>)
  /\ [](\A id \in DOMAIN pending : pending[id].sock = ws)
  /\ [][ws' # ws => pending' = <<>>]_vars
  /\ [][\A i \in DOMAIN lastSettled' :
          lastSettled'[i].kind \in {"resolve", "error"} =>
            /\ lastSettled'[i].id \in DOMAIN pending
            /\ pending[lastSettled'[i].id].sock = ws'
            /\ ws' = ws]_vars

\* connect() has replaced a socket with a pending request: the request was
\* rejected by the teardown and the new socket starts with an empty table
C35_Witness ==
  /\ ws # NoSocket
  /\ sockState[ws] = "CONNECTING"
  /\ pending = <<>>
  /\ lastSettled # <<>>
  /\ lastSettled[1].kind = "teardown"

\* C36: every command that sendCommand accepted settles: with timers that
\* fire, a pending entry leaves the table and its promise is settled,
\* whether the server answers, streams partial results only, stays silent,
\* or the socket reports an error and stays open.
C36_CommandsSettle ==
  \A id \in ReqIds :
    (id \in DOMAIN pending) ~> (id \notin DOMAIN pending /\ settled[id] # <<>>)

\* a command was settled by its timer after the server had streamed partial
\* results for it
C36_Witness ==
  \E i \in DOMAIN lastSettled :
    /\ lastSettled[i].kind = "timeout"
    /\ streamed[lastSettled[i].id] # <<>>
    /\ lastSettled[i].id \notin DOMAIN pending

\* C37: every attempt of connect() settles and releases the guard - the
\* socket opens, fails, runs into the 8s timer or is torn down by
\* disconnect() while connecting - and a call of connect() made when no
\* attempt is in flight starts a fresh attempt on a new socket.
C37_AttemptsSettle ==
  /\ connectPromise.active ~> ~connectPromise.active
  /\ [][(~connectPromise.active /\ connectPromise'.active) =>
          /\ ws' = nextSock /\ nextSock' = nextSock + 1
          /\ sockState'[ws'] = "CONNECTING"
          /\ connectPromise'.sock = ws'
          /\ connectPromise'.waiters = 1
          /\ ~connSettled'[ws']]_vars
  /\ [][(connectPromise.active /\ ~connectPromise'.active) =>
          Len(connectOutcomes') = connectPromise.waiters]_vars

\* an attempt that two callers waited on has been rejected for both by its
\* timer: the socket was torn down before it opened and its own error event
\* has not arrived
C37_Witness ==
  /\ ~connectPromise.active
  /\ connectOutcomes = <<"rejected", "rejected">>
  /\ ws = NoSocket
  /\ \E s \in SockIds :
       sockState[s] = "CLOSING" /\ ~attached[s] /\ connSettled[s]

\* C38: in every reachable state the authenticated flag is true exactly when
\* the session state is authenticated, an authenticated session has an active
\* socket (this.ws is not null), and neither the snapshot getStatus() would
\* return nor the last one handed to the subscribers reports authRequired
\* and authenticated together.
C38_StatusConsistent ==
  /\ authenticated <=> (state = "authenticated")
  /\ authenticated => ws # NoSocket
  /\ ~(getStatus(Cur).authRequired /\ getStatus(Cur).authenticated)
  /\ ~(lastSnapshot.authRequired /\ lastSnapshot.authenticated)

\* a session is authenticated with its token against a server that requires
\* authentication: the flag is set, the socket is in place and open, and the
\* snapshot reports authenticated without authRequired
C38_Witness ==
  /\ state = "authenticated"
  /\ authenticated
  /\ ws # NoSocket
  /\ sockState[ws] = "OPEN"
  /\ serverInfo.present
  /\ serverInfo.schema_version >= AUTH_SCHEMA_VERSION
  /\ authToken # ""
  /\ lastSnapshot.authenticated
  /\ ~lastSnapshot.authRequired

\* C39: every emitted maState payload is self-consistent when a selection
\* interleaves with a poll in flight: the queueItems it carries are empty or
\* were fetched with the queue_id of the queue that the selectedPlayerId of
\* the same payload resolves to, never with a previously selected player's.
C39_PayloadSelfConsistent ==
  lastState.emitted =>
    \/ lastState.queueItems = <<>>
    \/ lastState.itemsOf = lastState.queue_id

\* C40: relative volume adjustments accumulate: when k adjustVolume(delta)
\* requests for one target have completed one after another and nothing else
\* changed its volume, the last volume_set issued for it carries
\* clamp(v + k*delta, 0, 100), v being its volume before the first request,
\* whether or not a poll cycle refreshed the players cache in between.
C40_AdjustmentsAccumulate ==
  volumeLog.done >= 1 =>
    volumeLog.sets[volumeLog.done] =
      clamp(volumeLog.v[1] + volumeLog.done * (volumeLog.delta \div 2),
            0, 100)

\* the session is usable: authenticated, or connected and waiting for a
\* token that the settings do not carry
SessionRecovered ==
  \/ state = "authenticated" /\ authenticated
  \/ /\ state = "connected" /\ authToken = ""
     /\ getStatus(Cur).authRequired

\* C24: no session state is terminal: from every reachable state, the error
\* state included, an explicit reconnect against a reachable server that
\* accepts the handshake eventually brings the session to authenticated, or
\* to connected with authRequired when no token is configured.
C24_ReconnectRecovers == Reconnecting ~> SessionRecovered

\* a reconnect requested in state error has reached authenticated
C24_Witness ==
  /\ Reconnecting
  /\ lastCall.from = "error"
  /\ state = "authenticated" /\ authenticated
  /\ authToken # ""

====
